---- MODULE Spec2Model ----
(***************************************************************************)
(* State-machine model of mcp-semantic-recall: EmbeddingService (the       *)
(* choice of the provider), DatabaseService (the LanceDB store and its     *)
(* config guard) and MemoryService (add, addBatch, search, update, delete, *)
(* list, related), with every await of a method as an interleaving point   *)
(* of the single-threaded event loop.                                      *)
(***************************************************************************)
EXTENDS Integers, Sequences, FiniteSets, Bags, TLC

\* ------------------------------------------------------------------ bounds
MaxCalls == 2      \* handler invocations that can be in flight at once
MaxOps == 2        \* handler invocations in one run on an open store
MaxEarlyOps == 1   \* handler invocations in one run of the whole process
MaxBatch == 2      \* longest batch addMemories is given
MaxSearches == 1   \* search and related invocations in one run of the searches
MaxInits == 2      \* DatabaseService.initialize() calls in one run, overlapping or not
MaxCloses == 1     \* DatabaseService.close() calls in one run
MaxEmbedInits == 1 \* EmbeddingService.initialize() calls in one run, overlapping or not
MaxEmbedRetries == 2 \* the same where the provider detection is repeated

Procs == 1..MaxCalls
InitProcs == 1..MaxInits

\* ------------------------------------------------- optional values (a?: T)
None == <<>>
Some(x) == <<x>>
IsSome(o) == Len(o) > 0
Get(o) == o[1]
\* JS `a ?? b` on optional values
Coalesce(a, b) == IF IsSome(a) THEN a ELSE b

NoTime == -1       \* a null last_used column
UnknownId == 0     \* a memoryId string that crypto.randomUUID() never returned

\* ---------------------------------------------------------- input alphabets
NoMetadata == [project |-> None, tags |-> None]

\* EmbeddingService.initialize picks one of two fixed configurations
OllamaConfig == [provider |-> "ollama", model |-> "nomic-embed-text", dimension |-> 768]
TransformersConfig ==
    [provider |-> "transformers", model |-> "Xenova/all-MiniLM-L6-v2", dimension |-> 384]
\* config rows an earlier process may have persisted
PersistedConfigs ==
    {OllamaConfig, TransformersConfig,
     [OllamaConfig EXCEPT !.dimension = 384],
     [OllamaConfig EXCEPT !.model = "Xenova/all-MiniLM-L6-v2"]}

\* error messages
DbNotInit == "Database not initialized"
NotFound == "Memory with id not found"
ConfigMismatch == "Database was created with a different provider/model"
EmbedNotInit == "EmbeddingService not initialized"
PipelineNotInit == "Transformers pipeline not initialized"
EmbedFailed == "embedding generation failed"
BatchEmbedMissing == "Failed to generate embedding for memory"
TypeErrorNull == "TypeError: cannot read properties of null"
TableExists == "Table already exists"
StoreRefused == "the store refused the request"

VARIABLES
    tableNames,     \* disk: names of the tables of the LanceDB directory
    configRows,     \* disk: rows of the config table
    rows,           \* disk: rows of the memories table, in store order
    ftsIndex,       \* disk: the memories table has an FTS index on content
    embeddingService, \* EmbeddingService: config, initialized, transformerPipeline
    embedInits,     \* the in-flight EmbeddingService.initialize() calls, by position
    db,             \* DatabaseService.db is non-null
    table,          \* DatabaseService.table is non-null
    configTable,    \* DatabaseService.configTable is non-null
    inits,          \* the in-flight DatabaseService.initialize() calls, one per slot
    initDone,       \* the DatabaseService.initialize() call that returned or threw last
    dbCalls,        \* number of initialize() and of close() calls made so far
    calls,          \* the in-flight MemoryService calls, one per slot
    completed,      \* the MemoryService call that returned or threw last
    invoked,        \* number of MemoryService calls made so far
    writeBacks,     \* usage updates issued by search and not yet settled (a bag)
    nextId,         \* next id crypto.randomUUID() returns
    now,            \* last value Date.now() returned
    hist            \* history: what happened so far (read by the properties only)

vars == <<tableNames, configRows, rows, ftsIndex, embeddingService, embedInits, db, table,
          configTable, inits, initDone, dbCalls, calls, completed, invoked, writeBacks, nextId,
          now, hist>>
disk == <<tableNames, configRows, rows, ftsIndex>>
embedder == <<embeddingService, embedInits>>
service == <<db, table, configTable>>
lifecycle == <<inits, initDone, dbCalls>>
handlers == <<calls, completed, invoked>>

\* ------------------------------------------------------- the LanceDB table
\* The memories schema stores embedding as FixedSizeList<Float32>: a vector is
\* [of |-> text, model |-> model, f32 |-> was it rounded to Float32].
Float32(e) == [e EXCEPT !.f32 = TRUE]

\* `embedding: undefined`, what generateOllamaEmbedding returns for a body
\* without an embedding; a store that takes it holds a null
Undefined == [of |-> "", model |-> "undefined", f32 |-> FALSE]
Null == [of |-> "", model |-> "null", f32 |-> TRUE]
\* the [] that updateMemory copies from a record without a vector
Empty == [of |-> "", model |-> "empty", f32 |-> FALSE]

\* table.add(records): one atomic append, embeddings stored as Float32
TableAdd(rs, recs) ==
    rs \o [i \in 1..Len(recs) |->
              [recs[i] EXCEPT !.embedding = Float32(@)]]

\* a faulty delete: the matching rows stay
TableDeleteNone(rs, id) == rs

\* a faulty delete: the predicate is lost and every row goes
TableDeleteAll(rs, id) == <<>>

\* table.delete(`id = '...'`)
TableDelete(rs, id) == SelectSeq(rs, LAMBDA r : r.id # id)

\* a faulty lookup: the where clause is lost and limit(1) returns the first row
TableQueryFirst(rs, id) == IF Len(rs) = 0 THEN <<>> ELSE <<rs[1]>>

\* table.query().where(`id = '...'`).limit(1).toArray()
TableQueryById(rs, id) ==
    LET hits == SelectSeq(rs, LAMBDA r : r.id = id)
    IN  IF Len(hits) = 0 THEN <<>> ELSE <<hits[1]>>

\* a faulty update: a record is written when no row has the id
TableUpsert(rs, w) ==
    IF \E i \in 1..Len(rs) : rs[i].id = w.id
    THEN [i \in 1..Len(rs) |->
            IF rs[i].id = w.id
            THEN [rs[i] EXCEPT !.usage_count = w.usage_count, !.last_used = w.last_used]
            ELSE rs[i]]
    ELSE rs \o <<[id |-> w.id, content |-> "", timestamp |-> w.last_used,
                  embedding |-> [of |-> "", model |-> "", f32 |-> TRUE],
                  project |-> None, tags |-> None,
                  usage_count |-> w.usage_count, last_used |-> w.last_used]>>

\* table.update({where: `id = '...'`, values: {usage_count, last_used}})
TableUpdate(rs, w) ==
    [i \in 1..Len(rs) |->
        IF rs[i].id = w.id
        THEN [rs[i] EXCEPT !.usage_count = w.usage_count, !.last_used = w.last_used]
        ELSE rs[i]]

RowIds(rs) == {rs[i].id : i \in 1..Len(rs)}
RowsOf(rs, id) == {i \in 1..Len(rs) : rs[i].id = id}

\* --------------------------------------------------------------- the clock
\* Date.now(): never earlier than the last value read
DateNow == {now, now + 1}

\* n readings of Date.now(), one after the other
RECURSIVE DateNowTimes(_, _)
DateNowTimes(from, n) ==
    IF n = 0 THEN {<<>>}
    ELSE UNION {{<<t>> \o rest : rest \in DateNowTimes(t, n - 1)} : t \in {from, from + 1}}

\* --------------------------------------------------------- EmbeddingService
\* private config = null; private transformerPipeline = null; private initialized = false
EmbeddingServiceNew == [config |-> None, initialized |-> FALSE, transformerPipeline |-> FALSE]
NoEmbedInits == [calls |-> 0, checking |-> 0, loading |-> 0]

\* initialize() is called: `if (this.initialized) return` lets it pass, and
\* checkOllamaAvailable() is awaited. (A call on an initialized service returns
\* at once and changes nothing.)
embeddingService_initialize(max) ==
    /\ ~embeddingService.initialized
    /\ embedInits.calls < max
    /\ embedInits' = [embedInits EXCEPT !.calls = @ + 1, !.checking = @ + 1]
    /\ UNCHANGED <<disk, embeddingService, service, lifecycle, handlers, writeBacks,
                   nextId, now, hist>>

\* checkOllamaAvailable() resolves, true or false (it catches every error):
\* the Ollama config is set and the service is initialized, or the Transformers
\* config is set and pipeline(...) is awaited
checkOllamaAvailable ==
    /\ embedInits.checking > 0
    /\ \E ollamaAvailable \in BOOLEAN :
        IF ollamaAvailable
        THEN /\ embeddingService' = [embeddingService EXCEPT !.config = Some(OllamaConfig),
                                                             !.initialized = TRUE]
             /\ embedInits' = [embedInits EXCEPT !.checking = @ - 1]
        ELSE /\ embeddingService' =
                    [embeddingService EXCEPT !.config = Some(TransformersConfig)]
             /\ embedInits' = [embedInits EXCEPT !.checking = @ - 1, !.loading = @ + 1]
    /\ hist' = [hist EXCEPT !.configs = @ \cup {Get(embeddingService'.config)}]
    /\ UNCHANGED <<disk, service, lifecycle, handlers, writeBacks, nextId, now>>

\* pipeline('feature-extraction', model) settles: the pipeline is kept and the
\* service is initialized, or initialize() throws with the config left set
pipeline ==
    /\ embedInits.loading > 0
    /\ embedInits' = [embedInits EXCEPT !.loading = @ - 1]
    /\ \E loaded \in BOOLEAN :
        embeddingService' =
            IF loaded
            THEN [embeddingService EXCEPT !.transformerPipeline = TRUE, !.initialized = TRUE]
            ELSE embeddingService
    /\ UNCHANGED <<disk, service, lifecycle, handlers, writeBacks, nextId, now, hist>>

\* getConfig() throws when no config is set
HasConfig == IsSome(embeddingService.config)
getConfig == Get(embeddingService.config)

\* generateEmbedding(text) up to its first await: the checks of the service and
\* of the pipeline, and the provider that is asked
EmbeddingRequest ==
    IF ~embeddingService.initialized \/ ~HasConfig
    THEN [error |-> EmbedNotInit, provider |-> "none", model |-> ""]
    ELSE IF getConfig.provider = "ollama"
    THEN [error |-> "", provider |-> "ollama", model |-> "nomic-embed-text"]
    ELSE IF ~embeddingService.transformerPipeline
    THEN [error |-> PipelineNotInit, provider |-> "transformers", model |-> ""]
    ELSE [error |-> "", provider |-> "transformers", model |-> getConfig.model]
NoRequest == [error |-> "", provider |-> "none", model |-> ""]

\* how the call can end: a vector, an exception, and from Ollama a body without
\* a vector (data.embedding is undefined)
EmbedOutcomes(request) ==
    IF request.error # "" THEN {"throw"}
    ELSE IF request.provider = "ollama" THEN {"ok", "throw", "undefined"}
    ELSE {"ok", "throw"}

\* the error of a call that threw
EmbedError(request) == IF request.error # "" THEN request.error ELSE EmbedFailed

\* the value generateEmbedding(text) resolves to
GenerateEmbedding(request, text, outcome) ==
    IF outcome = "undefined" THEN Undefined
    ELSE [of |-> text, model |-> request.model, f32 |-> FALSE]

\* ------------------------------------------------- DatabaseService.initialize
\* One slot per initialize() call: its position, which call of the process it
\* is, the tableNames it read, the currentConfig it read from getConfig(), and
\* whether close() or another initialize() ran while it was in flight. The
\* record of the call that returned last also keeps how the first call ended.
InitIdle ==
    [pc |-> "idle", nth |-> 0, seen |-> {}, config |-> None, closed |-> FALSE,
     overlapped |-> FALSE, result |-> "none", firstResult |-> "none"]

InFlight == {i \in InitProcs : inits[i].pc # "idle"}

\* a faulty guard: the persisted config is not compared
ConfigNeverDiffers(config, currentConfig) == FALSE

\* config.embedding_provider !== currentConfig.provider ||
\* config.embedding_model !== currentConfig.model
ConfigDiffers(config, currentConfig) ==
    \/ config.provider # currentConfig.provider
    \/ config.model # currentConfig.model

\* the call in slot i goes on as c; a call that returned or threw leaves its slot
InitMove(i, c) ==
    IF c.result # "none"
    THEN /\ inits' = [inits EXCEPT ![i] = InitIdle]
         /\ initDone' = [c EXCEPT !.pc = "idle",
                                   !.firstResult = IF c.nth = 1 THEN c.result
                                                   ELSE initDone.firstResult]
    ELSE inits' = [inits EXCEPT ![i] = c] /\ initDone' = initDone

InitFail(i, msg) == InitMove(i, [inits[i] EXCEPT !.result = msg])

\* initialize() is called in the first free slot: connect(dbPath) is awaited
initialize(i) ==
    /\ dbCalls.initialize < MaxInits
    /\ inits[i].pc = "idle"
    /\ \A j \in InitProcs : j < i => inits[j].pc # "idle"
    /\ dbCalls' = [dbCalls EXCEPT !.initialize = @ + 1]
    /\ inits' = [j \in InitProcs |->
                    IF j = i THEN [InitIdle EXCEPT !.pc = "connect",
                                                   !.nth = dbCalls.initialize + 1,
                                                   !.overlapped = InFlight # {}]
                    ELSE IF inits[j].pc # "idle" THEN [inits[j] EXCEPT !.overlapped = TRUE]
                    ELSE inits[j]]
    /\ hist' = [hist EXCEPT !.started = TRUE]
    /\ UNCHANGED <<disk, embedder, service, initDone, handlers, writeBacks, nextId, now>>

\* this.db = await connect(dbPath): connect resolves, db is assigned, and
\* this.db.tableNames() is awaited
initialize_connect(i) ==
    /\ inits[i].pc = "connect"
    /\ db' = TRUE
    /\ InitMove(i, [inits[i] EXCEPT !.pc = "tableNames"])
    /\ UNCHANGED <<disk, embedder, table, configTable, dbCalls, handlers, writeBacks, nextId, now,
                   hist>>

\* tableNames() resolves. With a config table, this.db.openTable(config) is
\* awaited; without one, getConfig() is read into currentConfig, the row is
\* built from it and this.db.createTable(config, [row]) is awaited. Either
\* this.db.<call> throws when close() has set db to null.
initialize_tableNames(i) ==
    /\ inits[i].pc = "tableNames"
    /\ LET c == [inits[i] EXCEPT !.seen = tableNames]
       IN  IF "config" \in tableNames
           THEN IF ~db THEN InitMove(i, [c EXCEPT !.result = TypeErrorNull])
                ELSE InitMove(i, [c EXCEPT !.pc = "openConfig"])
           ELSE IF ~HasConfig THEN InitMove(i, [c EXCEPT !.result = EmbedNotInit])
                ELSE LET read == [c EXCEPT !.config = Some(getConfig)]
                     IN  IF ~db THEN InitMove(i, [read EXCEPT !.result = TypeErrorNull])
                         ELSE InitMove(i, [read EXCEPT !.pc = "createConfig"])
    /\ UNCHANGED <<disk, embedder, service, dbCalls, handlers, writeBacks, nextId, now, hist>>

\* after the config table: this.db.openTable(memories) is awaited, or the schema
\* is built with getDimension() and this.db.createEmptyTable(memories, schema)
\* is awaited
OpenOrCreateTable(i, c) ==
    IF "memories" \in c.seen
    THEN IF ~db THEN InitMove(i, [c EXCEPT !.result = TypeErrorNull])
         ELSE InitMove(i, [c EXCEPT !.pc = "openTable"])
    ELSE IF ~HasConfig THEN InitMove(i, [c EXCEPT !.result = EmbedNotInit])
         ELSE IF ~db THEN InitMove(i, [c EXCEPT !.result = TypeErrorNull])
         ELSE InitMove(i, [c EXCEPT !.pc = "createTable"])

\* this.configTable = await this.db.openTable(config): configTable is assigned
\* and this.configTable.query().limit(1).toArray() is awaited
initialize_openConfig(i) ==
    /\ inits[i].pc = "openConfig"
    /\ configTable' = TRUE
    /\ InitMove(i, [inits[i] EXCEPT !.pc = "queryConfig"])
    /\ UNCHANGED <<disk, embedder, db, table, dbCalls, handlers, writeBacks, nextId, now, hist>>

\* the config row is read: it is compared with getConfig()
initialize_queryConfig(i) ==
    /\ inits[i].pc = "queryConfig"
    /\ IF Len(configRows) > 0 /\ ~HasConfig THEN InitFail(i, EmbedNotInit)
       ELSE IF Len(configRows) > 0
       THEN LET c == [inits[i] EXCEPT !.config = Some(getConfig)]
            IN  IF ConfigDiffers(configRows[1], getConfig)
                THEN InitMove(i, [c EXCEPT !.result = ConfigMismatch])
                ELSE OpenOrCreateTable(i, c)
       ELSE OpenOrCreateTable(i, inits[i])
    /\ UNCHANGED <<disk, embedder, service, dbCalls, handlers, writeBacks, nextId, now, hist>>

\* a faulty initialize: the row is written into a config table that exists
initialize_createConfig_rewrites(i) ==
    /\ inits[i].pc = "createConfig"
    /\ tableNames' = tableNames \cup {"config"}
    /\ configRows' = configRows \o <<Get(inits[i].config)>>
    /\ configTable' = TRUE
    /\ OpenOrCreateTable(i, inits[i])
    /\ UNCHANGED <<rows, ftsIndex, embedder, db, table, dbCalls, handlers, writeBacks, nextId, now,
                   hist>>

\* this.configTable = await this.db.createTable(config, [row]): the table is
\* created with the row, or the store refuses because the name is taken
initialize_createConfig(i) ==
    /\ inits[i].pc = "createConfig"
    /\ IF "config" \in tableNames
       THEN /\ InitFail(i, TableExists)
            /\ UNCHANGED <<tableNames, configRows, configTable>>
       ELSE /\ tableNames' = tableNames \cup {"config"}
            /\ configRows' = <<Get(inits[i].config)>>
            /\ configTable' = TRUE
            /\ OpenOrCreateTable(i, inits[i])
    /\ UNCHANGED <<rows, ftsIndex, embedder, db, table, dbCalls, handlers, writeBacks, nextId, now,
                   hist>>

\* this.table = await this.db.openTable(memories): table is assigned and
\* this.table.listIndices() is awaited
initialize_openTable(i) ==
    /\ inits[i].pc = "openTable"
    /\ table' = TRUE
    /\ InitMove(i, [inits[i] EXCEPT !.pc = "listIndices"])
    /\ UNCHANGED <<disk, embedder, db, configTable, dbCalls, handlers, writeBacks, nextId, now, hist>>

\* listIndices() resolves: with an index on content initialize() returns,
\* without one this.table.createIndex(content) is awaited
initialize_listIndices(i) ==
    /\ inits[i].pc = "listIndices"
    /\ IF ftsIndex THEN InitMove(i, [inits[i] EXCEPT !.result = "ok"])
       ELSE IF ~table THEN InitFail(i, TypeErrorNull)
       ELSE InitMove(i, [inits[i] EXCEPT !.pc = "createIndex"])
    /\ UNCHANGED <<disk, embedder, service, dbCalls, handlers, writeBacks, nextId, now, hist>>

\* this.table = await this.db.createEmptyTable(memories, schema): the empty
\* table is created, table is assigned and this.table.createIndex(content) is
\* awaited; or the store refuses because the name is taken
initialize_createTable(i) ==
    /\ inits[i].pc = "createTable"
    /\ IF "memories" \in tableNames
       THEN /\ InitFail(i, TableExists)
            /\ UNCHANGED <<tableNames, rows, table>>
       ELSE /\ tableNames' = tableNames \cup {"memories"}
            /\ rows' = <<>>
            /\ table' = TRUE
            /\ InitMove(i, [inits[i] EXCEPT !.pc = "createIndex"])
    /\ UNCHANGED <<configRows, ftsIndex, embedder, db, configTable, dbCalls, handlers, writeBacks,
                   nextId, now, hist>>

\* createIndex resolves: the FTS index exists and initialize() returns
initialize_createIndex(i) ==
    /\ inits[i].pc = "createIndex"
    /\ ftsIndex' = TRUE
    /\ InitMove(i, [inits[i] EXCEPT !.result = "ok"])
    /\ UNCHANGED <<tableNames, configRows, rows, embedder, service, dbCalls, handlers, writeBacks,
                   nextId, now, hist>>

\* DatabaseService.close()
close ==
    /\ dbCalls.close < MaxCloses
    /\ dbCalls' = [dbCalls EXCEPT !.close = @ + 1]
    /\ db' = FALSE
    /\ table' = FALSE
    /\ configTable' = FALSE
    /\ inits' = [j \in InitProcs |->
                    IF inits[j].pc # "idle" THEN [inits[j] EXCEPT !.closed = TRUE]
                    ELSE inits[j]]
    /\ hist' = [hist EXCEPT !.started = FALSE]
    /\ UNCHANGED <<disk, embedder, initDone, handlers, writeBacks, nextId, now>>

\* ------------------------------------------------ JS numbers (IEEE-754 doubles)
\* A natural number is a sequence of limbs (digits to the base 2^13), least
\* significant first, without a leading zero limb. A non-negative double is
\* [m |-> limbs, e |-> exponent], the value m * 2^e with m odd and below 2^53
\* (m = <<>>, e = 0 for zero). Subnormals and overflow are out of reach here.
Significand == 53  \* bits of the significand of a double
LimbBits == 13     \* bits of one limb, so that a product of limbs fits 32 bits
Base == 2 ^ LimbBits

RECURSIVE Limbs(_)
Limbs(k) == IF k = 0 THEN <<>> ELSE <<k % Base>> \o Limbs(k \div Base)

RECURSIVE TrimLimbs(_)
TrimLimbs(a) ==
    IF a # <<>> /\ a[Len(a)] = 0 THEN TrimLimbs(SubSeq(a, 1, Len(a) - 1)) ELSE a

\* the carries of the columns cols[k..] are propagated, least significant first
RECURSIVE Carry(_, _, _)
Carry(cols, k, carry) ==
    IF k > Len(cols) THEN (IF carry = 0 THEN <<>> ELSE <<carry>>)
    ELSE <<(cols[k] + carry) % Base>> \o Carry(cols, k + 1, (cols[k] + carry) \div Base)

Limb(a, i) == IF i >= 1 /\ i <= Len(a) THEN a[i] ELSE 0
LongerLen(a, b) == IF Len(a) >= Len(b) THEN Len(a) ELSE Len(b)

AddLimbs(a, b) == TrimLimbs(Carry([i \in 1..LongerLen(a, b) |-> Limb(a, i) + Limb(b, i)], 1, 0))
\* a - b for a >= b
SubLimbs(a, b) == TrimLimbs(Carry([i \in 1..Len(a) |-> a[i] - Limb(b, i)], 1, 0))

\* the sum of a[i] * b[k + 1 - i] over i = from .. Len(a)
RECURSIVE Column(_, _, _, _)
Column(a, b, k, from) ==
    IF from > Len(a) THEN 0
    ELSE a[from] * Limb(b, k + 1 - from) + Column(a, b, k, from + 1)

MulLimbs(a, b) ==
    IF a = <<>> \/ b = <<>> THEN <<>>
    ELSE TrimLimbs(Carry([k \in 1..(Len(a) + Len(b) - 1) |-> Column(a, b, k, 1)], 1, 0))

\* 2^c
PowerOfTwo(c) == [i \in 1..(c \div LimbBits) |-> 0] \o <<2 ^ (c % LimbBits)>>

\* a divided by the small number q, most significant limb first: quotient and
\* remainder
RECURSIVE DivLimbs(_, _)
DivLimbs(a, q) ==
    IF a = <<>> THEN [quot |-> <<>>, rem |-> 0]
    ELSE LET h == DivLimbs(Tail(a), q)
             cur == h.rem * Base + a[1]
         IN  [quot |-> <<cur \div q>> \o h.quot, rem |-> cur % q]

LessLimbs(a, b) ==
    \/ Len(a) < Len(b)
    \/ /\ Len(a) = Len(b)
       /\ \E i \in 1..Len(a) :
             /\ a[i] < b[i]
             /\ \A j \in (i + 1)..Len(a) : a[j] = b[j]

\* number of bits of a
BitLength(a) ==
    IF a = <<>> THEN 0
    ELSE (Len(a) - 1) * LimbBits
            + (CHOOSE n \in 1..LimbBits : 2 ^ (n - 1) <= a[Len(a)] /\ a[Len(a)] < 2 ^ n)

\* bit p of a, bit 0 the least significant
Bit(a, p) == (Limb(a, p \div LimbBits + 1) \div 2 ^ (p % LimbBits)) % 2

\* a \div 2^c
ShiftRight(a, c) ==
    LET w == c \div LimbBits
        b == c % LimbBits
    IN  TrimLimbs([i \in 1..(Len(a) - w) |->
                     Limb(a, i + w) \div 2 ^ b
                        + (Limb(a, i + w + 1) % 2 ^ b) * 2 ^ (LimbBits - b)])

\* round to nearest, ties to even: m * 2^e (and a little more when sticky) as
\* a double
Double(m, e, sticky) ==
    LET len == BitLength(m)
        cut == len - Significand
        kept == ShiftRight(m, cut)
        more == sticky \/ \E p \in 0..(cut - 2) : Bit(m, p) = 1
        up == Bit(m, cut - 1) = 1 /\ (more \/ Bit(kept, 0) = 1)
        n == IF cut <= 0 THEN m
             ELSE IF up THEN AddLimbs(kept, <<1>>) ELSE kept
        zeros == IF n = <<>> THEN 0
                 ELSE CHOOSE z \in 0..BitLength(n) :
                         Bit(n, z) = 1 /\ \A p \in 0..(z - 1) : Bit(n, p) = 0
    IN  IF n = <<>> THEN [m |-> <<>>, e |-> 0]
        ELSE [m |-> ShiftRight(n, zeros),
              e |-> e + zeros + (IF cut <= 0 THEN 0 ELSE cut)]

\* the number k as a double (0 <= k < 2^31)
Number(k) == Double(Limbs(k), 0, FALSE)

\* the significand of x at the exponent e <= x.e
AtExponent(x, e) == MulLimbs(x.m, PowerOfTwo(x.e - e))
LowerExponent(x, y) == IF x.e <= y.e THEN x.e ELSE y.e

\* x < y
Less(x, y) ==
    LessLimbs(AtExponent(x, LowerExponent(x, y)), AtExponent(y, LowerExponent(x, y)))

\* a / b for numbers a >= 0 and 0 < b < 2^17: the quotient to 64 binary places
\* and what is left, rounded
Quotient(a, b) ==
    LET d == DivLimbs(MulLimbs(Limbs(a), PowerOfTwo(64)), b)
    IN  Double(TrimLimbs(d.quot), -64, d.rem # 0)

\* x * y
Times(x, y) == Double(MulLimbs(x.m, y.m), x.e + y.e, FALSE)

\* x - y for x >= y
Minus(x, y) ==
    LET e == LowerExponent(x, y)
    IN  Double(SubLimbs(AtExponent(x, e), AtExponent(y, e)), e, FALSE)

\* x + y
Plus(x, y) ==
    LET e == LowerExponent(x, y)
    IN  Double(AddLimbs(AtExponent(x, e), AtExponent(y, e)), e, FALSE)

\* Math.min(x, y)
MathMin(x, y) == IF Less(y, x) THEN y ELSE x

\* ------------------------------------------------------------ MemoryService
\* One slot per handler invocation: arguments, locals, position, outcome, and
\* what the invocation has done so far (candidates, issued, embedCalls .. updates).
CallIdle ==
    [op |-> "none", pc |-> "idle", memoryId |-> UnknownId, content |-> None,
     metadata |-> NoMetadata, memories |-> <<>>, limit |-> 0, offset |-> 0,
     boostFrequent |-> FALSE, existing |-> None, memory |-> <<>>,
     request |-> NoRequest, vector |-> Undefined,
     candidates |-> <<>>, issued |-> <<>>, ret |-> <<>>, error |-> "",
     embedFailed |-> FALSE, lookupEmpty |-> FALSE,
     embedCalls |-> 0, tableCalls |-> 0, adds |-> 0, removed |-> 0, updates |-> 0]

At(p, op, pc) == calls[p].op = op /\ calls[p].pc = pc
Returned(c) == c.pc \in {"done", "failed"}

\* the call in slot p moves on to c; a call that returned or threw leaves its slot
Move(p, c) ==
    IF Returned(c)
    THEN calls' = [calls EXCEPT ![p] = CallIdle] /\ completed' = c
    ELSE calls' = [calls EXCEPT ![p] = c] /\ completed' = completed

\* const table = this.getTable(); if (!table) throw ...
NotInitialized == ~table

\* a handler is entered in the first free slot: the arguments are bound and the
\* table guard runs
Enter(p, c, firstPc) ==
    /\ calls[p].pc = "idle"
    /\ \A q \in Procs : q < p => calls[q].pc # "idle"
    /\ invoked' = invoked + 1
    /\ IF NotInitialized
       THEN Move(p, [c EXCEPT !.pc = "failed", !.error = DbNotInit, !.request = NoRequest,
                              !.embedCalls = 0, !.tableCalls = 0])
       ELSE Move(p, [c EXCEPT !.pc = firstPc])

\* the embedding column is a FixedSizeList of getDimension() Float32 values and
\* is not nullable: the store takes a vector and refuses `embedding: undefined`
\* or [] in a record to add, and undefined as the vector to search by
StoreAccepts(e) == {e \notin {Undefined, Empty}}

\* ids the caller can name: the id of every record stored so far (returned by an
\* add or read from a result), and one that was never handed out
KnownIds == {c[1] : c \in hist.created} \cup {UnknownId}

\* a faulty record: the metadata of the caller is left out
NewMemoryWithoutMetadata(id, content, embedding, timestamp, metadata) ==
    [id |-> id, content |-> content, embedding |-> embedding, timestamp |-> timestamp,
     project |-> None, tags |-> None, usage_count |-> 0, last_used |-> NoTime]

\* ---- addMemory
\* const memory: Memory = {id, content, embedding, timestamp: Date.now(), ...}
NewMemory(id, content, embedding, timestamp, metadata) ==
    [id |-> id, content |-> content, embedding |-> embedding, timestamp |-> timestamp,
     project |-> metadata.project, tags |-> metadata.tags,
     usage_count |-> 0, last_used |-> NoTime]

addMemory(p, content, metadata) ==
    /\ Enter(p, [CallIdle EXCEPT !.op = "addMemory", !.content = Some(content),
                                 !.metadata = metadata, !.request = EmbeddingRequest,
                                 !.embedCalls = 1], "embedding")
    /\ UNCHANGED <<disk, embedder, service, lifecycle, writeBacks, nextId, now, hist>>

\* the embedding settles: the call throws, or the record is built with what
\* the provider returned, a vector or undefined, and table.add is issued
addMemory_embedded(p) ==
    /\ At(p, "addMemory", "embedding")
    /\ \E outcome \in EmbedOutcomes(calls[p].request) :
        IF outcome = "throw"
        THEN /\ Move(p, [calls[p] EXCEPT !.pc = "failed", !.embedFailed = TRUE,
                                         !.error = EmbedError(calls[p].request)])
             /\ UNCHANGED <<nextId, now>>
        ELSE \E t \in DateNow :
             /\ now' = t
             /\ nextId' = nextId + 1
             /\ Move(p, [calls[p] EXCEPT !.pc = "adding", !.tableCalls = @ + 1,
                    !.embedFailed = outcome # "ok",
                    !.memory = <<NewMemory(nextId, Get(calls[p].content),
                                     GenerateEmbedding(calls[p].request,
                                                       Get(calls[p].content), outcome),
                                     t, calls[p].metadata)>>])
    /\ UNCHANGED <<disk, embedder, service, lifecycle, invoked, writeBacks, hist>>

\* history: the timestamp each id was created with
Created(h, recs) ==
    [h EXCEPT !.created = @ \cup {<<recs[i].id, recs[i].timestamp>> : i \in 1..Len(recs)}]

\* table.add settles: the record is in the table and the id is returned, or
\* the store refused a record without a vector and the call throws
addMemory_added(p) ==
    /\ At(p, "addMemory", "adding")
    /\ \E accepted \in StoreAccepts(calls[p].memory[1].embedding) :
        IF accepted
        THEN /\ rows' = TableAdd(rows, calls[p].memory)
             /\ Move(p, [calls[p] EXCEPT !.pc = "done", !.ret = <<calls[p].memory[1].id>>,
                                         !.adds = @ + 1])
             /\ hist' = Created(hist, calls[p].memory)
        ELSE /\ Move(p, [calls[p] EXCEPT !.pc = "failed", !.error = StoreRefused])
             /\ UNCHANGED <<rows, hist>>
    /\ UNCHANGED <<tableNames, configRows, ftsIndex, embedder, service, lifecycle, invoked,
                   writeBacks, nextId, now>>

\* ---- addMemories
\* the batch of n items: odd items bare, even items with their own project and tags
Batch(n) ==
    [i \in 1..n |-> IF i % 2 = 1 THEN [content |-> "a", project |-> None, tags |-> None]
                    ELSE [content |-> "b", project |-> Some("q"), tags |-> Some(<<"u">>)]]

\* the batch of n items: odd items with a project of their own and no tags, even
\* items with tags of their own and no project
MixedBatch(n) ==
    [i \in 1..n |-> IF i % 2 = 1 THEN [content |-> "a", project |-> Some("q"), tags |-> None]
                    ELSE [content |-> "b", project |-> None, tags |-> Some(<<"u">>)]]

\* a faulty join: the rejected and the empty embeddings are ignored
PromiseAllSettled(outcomes) == "ok"

\* await Promise.all(embeddingPromises) rejects if any call threw; the map then
\* throws on the first embedding that is undefined
PromiseAll(outcomes) ==
    IF \E i \in 1..Len(outcomes) : outcomes[i] = "throw" THEN "throw"
    ELSE IF \E i \in 1..Len(outcomes) : outcomes[i] = "undefined" THEN "undefined"
    ELSE "ok"

\* the items the map has turned into records when it throws: those before the
\* first undefined embedding
MappedBeforeThrow(outcomes) ==
    Cardinality({i \in 1..Len(outcomes) : \A j \in 1..i : outcomes[j] = "ok"})

\* a faulty batch: Date.now() is read again for every item
MemoryObjectsStampedEach(memories, defaults, firstId, timestamp, request) ==
    [i \in 1..Len(memories) |->
        [id |-> firstId + i - 1, content |-> memories[i].content,
         embedding |-> [of |-> memories[i].content, model |-> request.model, f32 |-> FALSE],
         timestamp |-> timestamp + i - 1,
         project |-> Coalesce(memories[i].project, defaults.project),
         tags |-> Coalesce(memories[i].tags, defaults.tags),
         usage_count |-> 0, last_used |-> NoTime]]

\* a faulty batch: an item with a project or tags of its own gets no default
MemoryObjectsOwnOrDefault(memories, defaults, firstId, timestamp, request) ==
    [i \in 1..Len(memories) |->
        NewMemory(firstId + i - 1, memories[i].content,
                  GenerateEmbedding(request, memories[i].content, "ok"), timestamp,
                  IF IsSome(memories[i].project) \/ IsSome(memories[i].tags)
                  THEN [project |-> memories[i].project, tags |-> memories[i].tags]
                  ELSE defaults)]

\* memories.map((m, i) => ({id: randomUUID(), ..., timestamp: now, ...}))
MemoryObjects(memories, defaults, firstId, timestamp, request) ==
    [i \in 1..Len(memories) |->
        NewMemory(firstId + i - 1, memories[i].content,
                  GenerateEmbedding(request, memories[i].content, "ok"), timestamp,
                  [project |-> Coalesce(memories[i].project, defaults.project),
                   tags |-> Coalesce(memories[i].tags, defaults.tags)])]

addMemories(p, memories, defaults) ==
    /\ Enter(p, [CallIdle EXCEPT !.op = "addMemories", !.memories = memories,
                                 !.metadata = defaults, !.request = EmbeddingRequest,
                                 !.embedCalls = Len(memories)], "embedding")
    /\ UNCHANGED <<disk, embedder, service, lifecycle, writeBacks, nextId, now, hist>>

\* Promise.all settles. It rejects; or Date.now() is read and the map throws on
\* a missing vector, after a randomUUID() for each item before it; or the
\* records are built with one timestamp and one table.add is issued.
addMemories_embedded(p) ==
    /\ At(p, "addMemories", "embedding")
    /\ \E outcomes \in [1..Len(calls[p].memories) -> EmbedOutcomes(calls[p].request)] :
        LET joined == PromiseAll(outcomes)
            failed == \E i \in 1..Len(outcomes) : outcomes[i] # "ok"
        IN  IF joined = "throw"
            THEN /\ Move(p, [calls[p] EXCEPT !.pc = "failed", !.embedFailed = failed,
                                             !.error = EmbedError(calls[p].request)])
                 /\ UNCHANGED <<nextId, now>>
            ELSE \E t \in DateNow :
                 /\ now' = t
                 /\ IF joined = "undefined"
                    THEN /\ nextId' = nextId + MappedBeforeThrow(outcomes)
                         /\ Move(p, [calls[p] EXCEPT !.pc = "failed", !.embedFailed = failed,
                                                     !.error = BatchEmbedMissing])
                    ELSE /\ nextId' = nextId + Len(calls[p].memories)
                         /\ Move(p, [calls[p] EXCEPT !.pc = "adding", !.tableCalls = @ + 1,
                                !.embedFailed = failed,
                                !.memory = MemoryObjects(calls[p].memories, calls[p].metadata,
                                                         nextId, t, calls[p].request)])
    /\ UNCHANGED <<disk, embedder, service, lifecycle, invoked, writeBacks, hist>>

addMemories_added(p) ==
    /\ At(p, "addMemories", "adding")
    /\ rows' = TableAdd(rows, calls[p].memory)
    /\ Move(p, [calls[p] EXCEPT !.pc = "done",
                    !.ret = [i \in 1..Len(calls[p].memory) |-> calls[p].memory[i].id],
                    !.adds = @ + Len(calls[p].memory)])
    /\ hist' = Created(hist, calls[p].memory)
    /\ UNCHANGED <<tableNames, configRows, ftsIndex, embedder, service, lifecycle, invoked,
                   writeBacks, nextId, now>>

\* ---- deleteMemory
deleteMemory(p, memoryId) ==
    /\ Enter(p, [CallIdle EXCEPT !.op = "deleteMemory", !.memoryId = memoryId,
                                 !.tableCalls = 1], "deleting")
    /\ UNCHANGED <<disk, embedder, service, lifecycle, writeBacks, nextId, now, hist>>

deleteMemory_deleted(p) ==
    /\ At(p, "deleteMemory", "deleting")
    /\ rows' = TableDelete(rows, calls[p].memoryId)
    /\ Move(p, [calls[p] EXCEPT !.pc = "done",
                    !.removed = @ + Cardinality(RowsOf(rows, calls[p].memoryId))])
    /\ hist' = [hist EXCEPT !.deleted = @ \cup {calls[p].memoryId}]
    /\ UNCHANGED <<tableNames, configRows, ftsIndex, embedder, service, lifecycle, invoked,
                   writeBacks, nextId, now>>

\* a faulty rebuild: the embedding of the existing record is kept for new content
UpdatedMemoryStaleEmbedding(existing, memoryId, content, embedding, metadata) ==
    [id |-> memoryId,
     content |-> IF IsSome(content) THEN Get(content) ELSE existing.content,
     embedding |-> existing.embedding,
     timestamp |-> existing.timestamp,
     project |-> Coalesce(metadata.project, existing.project),
     tags |-> Coalesce(metadata.tags, existing.tags),
     usage_count |-> existing.usage_count,
     last_used |-> existing.last_used]

\* a faulty rebuild: the record starts over as a new one, never used
UpdatedMemoryUnused(existing, memoryId, content, embedding, metadata) ==
    [id |-> memoryId,
     content |-> IF IsSome(content) THEN Get(content) ELSE existing.content,
     embedding |-> embedding,
     timestamp |-> existing.timestamp,
     project |-> Coalesce(metadata.project, existing.project),
     tags |-> Coalesce(metadata.tags, existing.tags),
     usage_count |-> 0,
     last_used |-> NoTime]

\* a faulty rebuild: the record is stamped with the time of the update
UpdatedMemoryRestamped(existing, memoryId, content, embedding, metadata) ==
    [id |-> memoryId,
     content |-> IF IsSome(content) THEN Get(content) ELSE existing.content,
     embedding |-> embedding,
     timestamp |-> now + 1,
     project |-> Coalesce(metadata.project, existing.project),
     tags |-> Coalesce(metadata.tags, existing.tags),
     usage_count |-> existing.usage_count,
     last_used |-> existing.last_used]

\* ---- updateMemory
\* existing.embedding ? Array.prototype.slice.call(existing.embedding) : []
ExistingEmbedding(existing) == IF existing.embedding = Null THEN Empty ELSE existing.embedding

\* const updatedMemory = {id: memoryId, content: content ?? existing.content, ...}
UpdatedMemory(existing, memoryId, content, embedding, metadata) ==
    [id |-> memoryId,
     content |-> IF IsSome(content) THEN Get(content) ELSE existing.content,
     embedding |-> embedding,
     timestamp |-> existing.timestamp,
     project |-> Coalesce(metadata.project, existing.project),
     tags |-> Coalesce(metadata.tags, existing.tags),
     usage_count |-> existing.usage_count,
     last_used |-> existing.last_used]

updateMemory(p, memoryId, content, metadata) ==
    /\ Enter(p, [CallIdle EXCEPT !.op = "updateMemory", !.memoryId = memoryId,
                                 !.content = content, !.metadata = metadata,
                                 !.tableCalls = 1], "querying")
    /\ UNCHANGED <<disk, embedder, service, lifecycle, writeBacks, nextId, now, hist>>

\* the lookup resolves: NotFound, or table.delete is issued
updateMemory_found(p) ==
    /\ At(p, "updateMemory", "querying")
    /\ LET results == TableQueryById(rows, calls[p].memoryId)
           empty == RowsOf(rows, calls[p].memoryId) = {}
       IN  IF Len(results) = 0
           THEN Move(p, [calls[p] EXCEPT !.pc = "failed", !.error = NotFound,
                                         !.lookupEmpty = empty])
           ELSE Move(p, [calls[p] EXCEPT !.pc = "deleting", !.lookupEmpty = empty,
                                         !.existing = Some(results[1]),
                                         !.tableCalls = @ + 1])
    /\ UNCHANGED <<disk, embedder, service, lifecycle, invoked, writeBacks, nextId, now,
                   hist>>

\* the delete resolves: the embedding is requested (content given) or the
\* existing one is copied and table.add is issued
updateMemory_deleted(p) ==
    /\ At(p, "updateMemory", "deleting")
    /\ rows' = TableDelete(rows, calls[p].memoryId)
    /\ LET c == calls[p]
           gone == Cardinality(RowsOf(rows, c.memoryId))
       IN  IF IsSome(c.content)
           THEN Move(p, [c EXCEPT !.pc = "embedding", !.removed = @ + gone,
                                  !.request = EmbeddingRequest, !.embedCalls = @ + 1])
           ELSE Move(p, [c EXCEPT !.pc = "adding", !.removed = @ + gone,
                    !.tableCalls = @ + 1,
                    !.memory = <<UpdatedMemory(Get(c.existing), c.memoryId, c.content,
                                     ExistingEmbedding(Get(c.existing)), c.metadata)>>])
    /\ UNCHANGED <<tableNames, configRows, ftsIndex, embedder, service, lifecycle, invoked,
                   writeBacks, nextId, now, hist>>

\* the embedding settles after the delete: the call throws, or table.add is
\* issued with what the provider returned, a vector or undefined
updateMemory_embedded(p) ==
    /\ At(p, "updateMemory", "embedding")
    /\ \E outcome \in EmbedOutcomes(calls[p].request) :
        LET c == calls[p]
        IN  IF outcome = "throw"
            THEN Move(p, [c EXCEPT !.pc = "failed", !.error = EmbedError(c.request),
                                   !.embedFailed = TRUE])
            ELSE Move(p, [c EXCEPT !.pc = "adding", !.tableCalls = @ + 1,
                    !.embedFailed = outcome # "ok",
                    !.memory = <<UpdatedMemory(Get(c.existing), c.memoryId, c.content,
                                     GenerateEmbedding(c.request, Get(c.content), outcome),
                                     c.metadata)>>])
    /\ UNCHANGED <<disk, embedder, service, lifecycle, invoked, writeBacks, nextId, now,
                   hist>>

\* table.add settles: the record is back in the table, or the store refused a
\* record without a vector and the call throws
updateMemory_added(p) ==
    /\ At(p, "updateMemory", "adding")
    /\ \E accepted \in StoreAccepts(calls[p].memory[1].embedding) :
        IF accepted
        THEN /\ rows' = TableAdd(rows, calls[p].memory)
             /\ Move(p, [calls[p] EXCEPT !.pc = "done", !.adds = @ + 1])
        ELSE /\ Move(p, [calls[p] EXCEPT !.pc = "failed", !.error = StoreRefused])
             /\ UNCHANGED rows
    /\ UNCHANGED <<tableNames, configRows, ftsIndex, embedder, service, lifecycle, invoked,
                   writeBacks, nextId, now, hist>>

\* ---- searchMemories
Min(a, b) == IF a <= b THEN a ELSE b

\* the first c positions of 1..n outside `used`, ascending
RECURSIVE Ascending(_, _, _)
Ascending(n, used, c) ==
    IF c = 0 THEN <<>>
    ELSE LET i == CHOOSE i \in (1..n) \ used : \A j \in (1..n) \ used : i <= j
         IN  <<i>> \o Ascending(n, used \cup {i}, c - 1)

\* An answer of the store to vectorSearch(...).fullTextSearch(...).limit(k) on n
\* rows: Min(n, k) distinct row positions in any order. Only the first m places
\* can reach the caller or a usage update, so the places after them are listed
\* in one order only.
Orders(n, k, m) ==
    LET len == Min(n, k)
        head == Min(len, m)
    IN  {o \o Ascending(n, {o[i] : i \in 1..head}, len - head) :
           o \in {o \in [1..head -> 1..n] : \A i, j \in 1..head : o[i] = o[j] => i = j}}

\* results.map(result => ({id, content, score: result._distance ?? 0, ...}))
ProcessedResults(rs, order, distance) ==
    [i \in 1..Len(order) |->
        [id |-> rs[order[i]].id, content |-> rs[order[i]].content,
         score |-> Number(distance[i]),
         timestamp |-> rs[order[i]].timestamp, project |-> rs[order[i]].project,
         tags |-> rs[order[i]].tags, usage_count |-> rs[order[i]].usage_count]]

\* Array.prototype.slice(from, to)
Slice(s, from, to) == SubSeq(s, from + 1, Min(to, Len(s)))

\* a faulty search: every candidate of the over-fetch is counted as used
UsageUpdatesForAll(processed, limit, times) ==
    [i \in 1..Len(processed) |->
        [id |-> processed[i].id, usage_count |-> processed[i].usage_count + 1,
         last_used |-> times[Min(i, Len(times))]]]

\* the table.update calls issued for processedResults.slice(0, limit), one
\* after the other, each with its own Date.now()
UsageUpdates(processed, limit, times) ==
    [i \in 1..Min(limit, Len(processed)) |->
        [id |-> processed[i].id, usage_count |-> processed[i].usage_count + 1,
         last_used |-> times[i]]]

\* the pending promises of a sequence of calls
RECURSIVE Pending(_)
Pending(issued) ==
    IF issued = <<>> THEN EmptyBag
    ELSE SetToBag({issued[1]}) (+) Pending(Tail(issued))

\* a faulty boost: frequent use raises the distance
BoostedScorePenalty(score, usageCount) ==
    Times(score, Plus(Number(1), Times(MathMin(Number(1), Quotient(usageCount, 10)),
                                       Quotient(4, 10))))

\* usageFactor = Math.min(1.0, usageCount / 10);
\* boostedScore = result.score * (1 - usageFactor * 0.4)
BoostedScore(score, usageCount) ==
    Times(score, Minus(Number(1), Times(MathMin(Number(1), Quotient(usageCount, 10)),
                                        Quotient(4, 10))))

\* a faulty boost: the candidates are not sorted again
NotSorted(s) == s

\* Array.prototype.sort((a, b) => a.score - b.score): stable, ascending
RECURSIVE SortByScore(_)
SortByScore(s) ==
    IF Len(s) <= 1 THEN s
    ELSE LET rest == SortByScore(SubSeq(s, 1, Len(s) - 1))
             x == s[Len(s)]
             k == Cardinality({i \in 1..Len(rest) : ~Less(x.score, rest[i].score)})
         IN  SubSeq(rest, 1, k) \o <<x>> \o SubSeq(rest, k + 1, Len(rest))

\* a faulty search: the candidates are sorted by distance before the cut
SearchResultsSorted(processed, limit, boostFrequent) ==
    IF boostFrequent
    THEN Slice(SortByScore([i \in 1..Len(processed) |->
                   [processed[i] EXCEPT !.score = BoostedScore(@, processed[i].usage_count)]]),
               0, limit)
    ELSE Slice(SortByScore(processed), 0, limit)

\* what searchMemories returns for the processed results
SearchResults(processed, limit, boostFrequent) ==
    IF boostFrequent
    THEN Slice(SortByScore([i \in 1..Len(processed) |->
                   [processed[i] EXCEPT !.score = BoostedScore(@, processed[i].usage_count)]]),
               0, limit)
    ELSE Slice(processed, 0, limit)

\* a faulty filter: the source memory is not dropped
KeepSource(results, memoryId, limit) == Slice(results, 0, limit)

\* results.filter((r) => r.id !== memoryId).slice(0, limit)
ExcludeSource(results, memoryId, limit) ==
    Slice(SelectSeq(results, LAMBDA r : r.id # memoryId), 0, limit)

\* await generateEmbedding(query) settles: the call throws, or the hybrid query
\* is issued with what the provider returned, a vector or undefined
SearchEmbedded(p) ==
    \E outcome \in EmbedOutcomes(calls[p].request) :
        IF outcome = "throw"
        THEN Move(p, [calls[p] EXCEPT !.pc = "failed", !.embedFailed = TRUE,
                                      !.error = EmbedError(calls[p].request)])
        ELSE Move(p, [calls[p] EXCEPT !.pc = "searching", !.tableCalls = @ + 1,
                  !.embedFailed = outcome # "ok",
                  !.vector = GenerateEmbedding(calls[p].request, Get(calls[p].content),
                                               outcome)])

\* the hybrid query settles: the store refused to search without a vector and
\* the call throws; or the candidates are mapped, the usage updates are issued,
\* not awaited, and the call returns. getRelatedMemories (related) then drops
\* the source memory.
SearchResolved(p, limit, scores, related) ==
    \E accepted \in StoreAccepts(calls[p].vector) :
        IF ~accepted
        THEN /\ Move(p, [calls[p] EXCEPT !.pc = "failed", !.error = StoreRefused])
             /\ UNCHANGED <<writeBacks, now>>
        ELSE \E order \in Orders(Len(rows), limit * 3,
                                  IF calls[p].boostFrequent THEN limit * 3 ELSE limit) :
             \E distance \in [1..Len(order) -> scores] :
             \E times \in DateNowTimes(now, Min(limit, Len(order))) :
                LET processed == ProcessedResults(rows, order, distance)
                    issued == UsageUpdates(processed, limit, times)
                IN  /\ now' = IF times = <<>> THEN now ELSE times[Len(times)]
                    /\ writeBacks' = writeBacks (+) Pending(issued)
                    /\ Move(p, [calls[p] EXCEPT !.pc = "done",
                            !.tableCalls = @ + Len(issued),
                            !.updates = @ + Len(issued),
                            !.candidates = processed, !.issued = issued,
                            !.ret = LET results == SearchResults(processed, limit,
                                                                 calls[p].boostFrequent)
                                    IN  IF related
                                        THEN ExcludeSource(results, calls[p].memoryId,
                                                           calls[p].limit)
                                        ELSE results])

searchMemories(p, query, limit, boostFrequent) ==
    /\ Enter(p, [CallIdle EXCEPT !.op = "searchMemories", !.content = Some(query),
                                 !.limit = limit, !.boostFrequent = boostFrequent,
                                 !.request = EmbeddingRequest, !.embedCalls = 1],
             "embedding")
    /\ UNCHANGED <<disk, embedder, service, lifecycle, writeBacks, nextId, now, hist>>

searchMemories_embedded(p) ==
    /\ At(p, "searchMemories", "embedding")
    /\ SearchEmbedded(p)
    /\ UNCHANGED <<disk, embedder, service, lifecycle, invoked, writeBacks, nextId, now,
                   hist>>

searchMemories_resolved(p, scores) ==
    /\ At(p, "searchMemories", "searching")
    /\ SearchResolved(p, calls[p].limit, scores, FALSE)
    /\ UNCHANGED <<disk, embedder, service, lifecycle, invoked, nextId, hist>>

\* ---- getRelatedMemories
getRelatedMemories(p, memoryId, limit, boostFrequent) ==
    /\ Enter(p, [CallIdle EXCEPT !.op = "getRelatedMemories", !.memoryId = memoryId,
                                 !.limit = limit, !.boostFrequent = boostFrequent,
                                 !.tableCalls = 1], "querying")
    /\ UNCHANGED <<disk, embedder, service, lifecycle, writeBacks, nextId, now, hist>>

\* the lookup resolves: NotFound, or this.searchMemories(source.content, limit + 1, ..)
\* is entered (its own table guard included) and awaits the embedding
getRelatedMemories_found(p) ==
    /\ At(p, "getRelatedMemories", "querying")
    /\ LET sourceResults == TableQueryById(rows, calls[p].memoryId)
           empty == RowsOf(rows, calls[p].memoryId) = {}
       IN  IF Len(sourceResults) = 0
           THEN Move(p, [calls[p] EXCEPT !.pc = "failed", !.error = NotFound,
                                         !.lookupEmpty = empty])
           ELSE IF NotInitialized
           THEN Move(p, [calls[p] EXCEPT !.pc = "failed", !.error = DbNotInit,
                                         !.lookupEmpty = empty])
           ELSE Move(p, [calls[p] EXCEPT !.pc = "embedding", !.lookupEmpty = empty,
                                         !.existing = Some(sourceResults[1]),
                                         !.content = Some(sourceResults[1].content),
                                         !.request = EmbeddingRequest,
                                         !.embedCalls = @ + 1])
    /\ UNCHANGED <<disk, embedder, service, lifecycle, invoked, writeBacks, nextId, now,
                   hist>>

getRelatedMemories_embedded(p) ==
    /\ At(p, "getRelatedMemories", "embedding")
    /\ SearchEmbedded(p)
    /\ UNCHANGED <<disk, embedder, service, lifecycle, invoked, writeBacks, nextId, now,
                   hist>>

getRelatedMemories_resolved(p, scores) ==
    /\ At(p, "getRelatedMemories", "searching")
    /\ SearchResolved(p, calls[p].limit + 1, scores, TRUE)
    /\ UNCHANGED <<disk, embedder, service, lifecycle, invoked, nextId, hist>>

\* ---- the usage updates of a search, running detached
writeBack_landed(w) ==
    /\ BagIn(w, writeBacks)
    /\ rows' = TableUpdate(rows, w)
    /\ writeBacks' = writeBacks (-) SetToBag({w})
    /\ UNCHANGED <<tableNames, configRows, ftsIndex, embedder, service, lifecycle,
                   handlers, nextId, now, hist>>

\* a faulty write-back: the rejection reaches the caller of the search
writeBack_rethrown(w) ==
    /\ BagIn(w, writeBacks)
    /\ writeBacks' = writeBacks (-) SetToBag({w})
    /\ completed' = [completed EXCEPT !.pc = "failed", !.error = "usage update failed"]
    /\ UNCHANGED <<disk, embedder, service, lifecycle, calls, invoked, nextId, now, hist>>

\* table.update rejects: caught and logged
writeBack_failed(w) ==
    /\ BagIn(w, writeBacks)
    /\ writeBacks' = writeBacks (-) SetToBag({w})
    /\ UNCHANGED <<disk, embedder, service, lifecycle, handlers, nextId, now, hist>>

\* ---- listMemories
\* project = '...' AND (array_contains(tags, '..') OR ...); `if (options?.project)`
\* and `options.tags.length > 0` skip an absent or empty filter
Matches(r, options) ==
    /\ (IsSome(options.project) /\ Get(options.project) # "")
          => r.project = options.project
    /\ (IsSome(options.tags) /\ Len(Get(options.tags)) > 0)
          => /\ IsSome(r.tags)
             /\ \E i \in 1..Len(Get(options.tags)) :
                 \E j \in 1..Len(Get(r.tags)) : Get(r.tags)[j] = Get(options.tags)[i]

\* query.limit(limit + offset).toArray(), then results.slice(offset, offset + limit)
ListResults(rs, options) ==
    LET results == Slice(SelectSeq(rs, LAMBDA r : Matches(r, options)),
                         0, options.limit + options.offset)
        sliced == Slice(results, options.offset, options.offset + options.limit)
    IN  [i \in 1..Len(sliced) |->
            [id |-> sliced[i].id, content |-> sliced[i].content,
             timestamp |-> sliced[i].timestamp, project |-> sliced[i].project,
             tags |-> sliced[i].tags, usage_count |-> sliced[i].usage_count,
             last_used |-> sliced[i].last_used]]

listMemories(p, options) ==
    /\ Enter(p, [CallIdle EXCEPT !.op = "listMemories", !.metadata =
                     [project |-> options.project, tags |-> options.tags],
                 !.limit = options.limit, !.offset = options.offset,
                 !.tableCalls = 1], "querying")
    /\ UNCHANGED <<disk, embedder, service, lifecycle, writeBacks, nextId, now, hist>>

\* query.where(project ..) followed by query.where(tagFilter): the code does not
\* say whether the store's second where() narrows the first filter or takes its
\* place, so the query carries either both filters or the tag filter alone
QueryFilters(options) ==
    {options} \cup
    IF /\ IsSome(options.project) /\ Get(options.project) # ""
       /\ IsSome(options.tags) /\ Len(Get(options.tags)) > 0
    THEN {[options EXCEPT !.project = None]}
    ELSE {}

listMemories_resolved(p) ==
    /\ At(p, "listMemories", "querying")
    /\ \E query \in QueryFilters([project |-> calls[p].metadata.project,
                                  tags |-> calls[p].metadata.tags,
                                  limit |-> calls[p].limit,
                                  offset |-> calls[p].offset]) :
           Move(p, [calls[p] EXCEPT !.pc = "done", !.ret = ListResults(rows, query)])
    /\ UNCHANGED <<disk, embedder, service, lifecycle, invoked, writeBacks, nextId, now,
                   hist>>

\* ------------------------------------------------------------ specification
\* history: an initialize() was called and no close() since, the (id,
\* timestamp) of every record created, the ids deleted, and the configs the
\* embedding service has had
HistInit == [started |-> FALSE, created |-> {}, deleted |-> {}, configs |-> {}]

\* the memory an earlier process left in the store: addMemory("a") under `config`
StoredMemory(config) ==
    NewMemory(1, "a", [of |-> "a", model |-> config.model, f32 |-> TRUE], 0, NoMetadata)
HistStored == [HistInit EXCEPT !.created = {<<1, 0>>}]

\* a process starts on a directory that is empty or was left by an earlier process
Init ==
    /\ \/ /\ tableNames = {}
          /\ configRows = <<>>
          /\ ftsIndex = FALSE
          /\ rows = <<>>
          /\ nextId = 1
          /\ hist = HistInit
       \/ /\ tableNames = {"config", "memories"}
          /\ configRows \in {<<c>> : c \in PersistedConfigs}
          /\ ftsIndex \in BOOLEAN
          /\ rows = <<StoredMemory(configRows[1])>>
          /\ nextId = 2
          /\ hist = HistStored
    /\ embeddingService = EmbeddingServiceNew
    /\ embedInits = NoEmbedInits
    /\ db = FALSE
    /\ table = FALSE
    /\ configTable = FALSE
    /\ inits = [i \in InitProcs |-> InitIdle]
    /\ initDone = InitIdle
    /\ dbCalls = [initialize |-> 0, close |-> 0]
    /\ calls = [p \in Procs |-> CallIdle]
    /\ completed = CallIdle
    /\ invoked = 0
    /\ writeBacks = EmptyBag
    /\ now = 0

\* the steps of EmbeddingService.initialize()
EmbeddingLifecycle(max) ==
    \/ embeddingService_initialize(max)
    \/ checkOllamaAvailable
    \/ pipeline

\* the steps of DatabaseService.initialize(), and close()
Lifecycle ==
    \/ \E i \in InitProcs :
          \/ initialize(i)
          \/ initialize_connect(i)
          \/ initialize_tableNames(i)
          \/ initialize_openConfig(i)
          \/ initialize_queryConfig(i)
          \/ initialize_createConfig(i)
          \/ initialize_openTable(i)
          \/ initialize_listIndices(i)
          \/ initialize_createTable(i)
          \/ initialize_createIndex(i)
    \/ close

\* the public methods of MemoryService
HandlerNames ==
    {"addMemory", "addMemories", "searchMemories", "updateMemory", "deleteMemory",
     "listMemories", "getRelatedMemories"}

\* a handler of in.ops is invoked in slot p with arguments drawn from the
\* alphabets of `in`
Invoke(p, in) ==
    /\ invoked < in.maxOps
    /\ \/ /\ "addMemory" \in in.ops
          /\ \E content \in in.contents, metadata \in in.metadatas :
                 addMemory(p, content, metadata)
       \/ /\ "addMemories" \in in.ops
          /\ \E memories \in in.batches, defaults \in in.metadatas :
                 addMemories(p, memories, defaults)
       \/ /\ "searchMemories" \in in.ops
          /\ \E query \in in.queries, limit \in in.limits, boost \in in.boosts :
                 searchMemories(p, query, limit, boost)
       \/ /\ "updateMemory" \in in.ops
          /\ \E id \in KnownIds, u \in in.updates :
                 updateMemory(p, id, u.content, u.metadata)
       \/ /\ "deleteMemory" \in in.ops
          /\ \E id \in KnownIds : deleteMemory(p, id)
       \/ /\ "listMemories" \in in.ops
          /\ \E options \in in.listOptions : listMemories(p, options)
       \/ /\ "getRelatedMemories" \in in.ops
          /\ \E id \in KnownIds, limit \in in.limits, boost \in in.boosts :
                 getRelatedMemories(p, id, limit, boost)

\* an awaited promise of the call in slot p settles
Resume(p, in) ==
    \/ addMemory_embedded(p)
    \/ addMemory_added(p)
    \/ addMemories_embedded(p)
    \/ addMemories_added(p)
    \/ searchMemories_embedded(p)
    \/ searchMemories_resolved(p, in.scores)
    \/ updateMemory_found(p)
    \/ updateMemory_deleted(p)
    \/ updateMemory_embedded(p)
    \/ updateMemory_added(p)
    \/ deleteMemory_deleted(p)
    \/ listMemories_resolved(p)
    \/ getRelatedMemories_found(p)
    \/ getRelatedMemories_embedded(p)
    \/ getRelatedMemories_resolved(p, in.scores)

Detached ==
    \E w \in BagToSet(writeBacks) : writeBack_landed(w) \/ writeBack_failed(w)

\* one argument list per handler
FewInputs ==
    [maxOps |-> MaxEarlyOps, ops |-> HandlerNames, contents |-> {"a"}, queries |-> {"a"},
     updates |-> {[content |-> Some("b"), metadata |-> NoMetadata]},
     metadatas |-> {NoMetadata}, batches |-> {Batch(MaxBatch)},
     limits |-> {1}, boosts |-> {FALSE}, scores |-> {0},
     listOptions |-> {[project |-> None, tags |-> None, limit |-> 1, offset |-> 0]}]

\* the whole process: the store's lifecycle and the handlers
Next ==
    \/ EmbeddingLifecycle(MaxEmbedInits)
    \/ Lifecycle
    \/ \E p \in Procs : Invoke(p, FewInputs) \/ Resume(p, FewInputs)
    \/ Detached

Spec == Init /\ [][Next]_vars

\* the services after both initialize() calls of a process that found Ollama;
\* the database call read the stored row and getConfig() and found them equal
EmbedInitsDone == [NoEmbedInits EXCEPT !.calls = 1]
EmbeddingServiceOllama ==
    [config |-> Some(OllamaConfig), initialized |-> TRUE, transformerPipeline |-> FALSE]
InitOk ==
    [InitIdle EXCEPT !.nth = 1, !.seen = {"config", "memories"},
                     !.config = Some(OllamaConfig), !.result = "ok", !.firstResult = "ok"]

\* MemoryService on a store that initialize() has opened
InitService ==
    /\ tableNames = {"config", "memories"}
    /\ configRows = <<OllamaConfig>>
    /\ ftsIndex = TRUE
    /\ rows = <<StoredMemory(OllamaConfig)>>
    /\ embeddingService = EmbeddingServiceOllama
    /\ embedInits = EmbedInitsDone
    /\ db = TRUE
    /\ table = TRUE
    /\ configTable = TRUE
    /\ inits = [i \in InitProcs |-> InitIdle]
    /\ initDone = InitOk
    /\ dbCalls = [initialize |-> 1, close |-> 0]
    /\ calls = [p \in Procs |-> CallIdle]
    /\ completed = CallIdle
    /\ invoked = 0
    /\ writeBacks = EmptyBag
    /\ nextId = 2
    /\ now = 0
    /\ hist = [HistStored EXCEPT !.started = TRUE, !.configs = {OllamaConfig}]

ServiceInputs ==
    [maxOps |-> MaxOps, ops |-> HandlerNames, contents |-> {"a"}, queries |-> {"a"},
     updates |-> {[content |-> Some("b"), metadata |-> NoMetadata],
                  [content |-> None, metadata |-> [project |-> Some("p"), tags |-> None]],
                  [content |-> Some("b"),
                   metadata |-> [project |-> None, tags |-> Some(<<"t">>)]]},
     metadatas |-> {NoMetadata}, batches |-> {Batch(MaxBatch)},
     limits |-> {1}, boosts |-> {FALSE}, scores |-> {0},
     listOptions |-> {[project |-> None, tags |-> None, limit |-> 1, offset |-> 0]}]

NextService ==
    \/ \E p \in Procs : Invoke(p, ServiceInputs) \/ Resume(p, ServiceInputs)
    \/ Detached

SpecService == InitService /\ [][NextService]_vars

\* MemoryService adding and deleting records, with varied content and metadata
AddInputs ==
    [ServiceInputs EXCEPT
        !.ops = {"addMemory", "addMemories", "deleteMemory"},
        !.contents = {"a", "b"},
        !.metadatas = {NoMetadata, [project |-> Some("p"), tags |-> Some(<<"t">>)]}]

ResumeAdd(p) ==
    \/ addMemory_embedded(p)
    \/ addMemory_added(p)
    \/ addMemories_embedded(p)
    \/ addMemories_added(p)
    \/ deleteMemory_deleted(p)

NextAdd == \E p \in Procs : Invoke(p, AddInputs) \/ ResumeAdd(p)

SpecAdd == InitService /\ [][NextAdd]_vars

\* MemoryService searching a store of three memories, used 0, 10 and 3 times
SearchRows ==
    <<StoredMemory(OllamaConfig),
      [StoredMemory(OllamaConfig) EXCEPT !.id = 2, !.content = "b",
          !.embedding = [of |-> "b", model |-> OllamaConfig.model, f32 |-> TRUE],
          !.usage_count = 10, !.last_used = 0],
      [StoredMemory(OllamaConfig) EXCEPT !.id = 3, !.usage_count = 3, !.last_used = 0]>>

InitSearch ==
    /\ tableNames = {"config", "memories"}
    /\ configRows = <<OllamaConfig>>
    /\ ftsIndex = TRUE
    /\ rows = SearchRows
    /\ embeddingService = EmbeddingServiceOllama
    /\ embedInits = EmbedInitsDone
    /\ db = TRUE
    /\ table = TRUE
    /\ configTable = TRUE
    /\ inits = [i \in InitProcs |-> InitIdle]
    /\ initDone = InitOk
    /\ dbCalls = [initialize |-> 1, close |-> 0]
    /\ calls = [p \in Procs |-> CallIdle]
    /\ completed = CallIdle
    /\ invoked = 0
    /\ writeBacks = EmptyBag
    /\ nextId = Len(SearchRows) + 1
    /\ now = 0
    /\ hist = [started |-> TRUE, deleted |-> {}, configs |-> {OllamaConfig},
               created |-> {<<SearchRows[i].id, SearchRows[i].timestamp>> :
                               i \in 1..Len(SearchRows)}]

SearchInputs ==
    [ServiceInputs EXCEPT
        !.maxOps = MaxSearches,
        !.ops = {"searchMemories", "getRelatedMemories"},
        !.limits = {1, 2},
        !.boosts = BOOLEAN,
        !.scores = {2, 3}]

ResumeSearch(p) ==
    \/ searchMemories_embedded(p)
    \/ searchMemories_resolved(p, SearchInputs.scores)
    \/ getRelatedMemories_found(p)
    \/ getRelatedMemories_embedded(p)
    \/ getRelatedMemories_resolved(p, SearchInputs.scores)

NextSearch ==
    \/ \E p \in Procs : Invoke(p, SearchInputs) \/ ResumeSearch(p)
    \/ Detached

SpecSearch == InitSearch /\ [][NextSearch]_vars

\* searchMemories alone, without the boost and at one distance
UsageInputs ==
    [SearchInputs EXCEPT !.ops = {"searchMemories"}, !.boosts = {FALSE}, !.scores = {2}]

ResumeUsage(p) ==
    \/ searchMemories_embedded(p)
    \/ searchMemories_resolved(p, UsageInputs.scores)

NextUsage ==
    \/ \E p \in Procs : Invoke(p, UsageInputs) \/ ResumeUsage(p)
    \/ Detached

\* every awaited promise settles, and so does every detached usage update
SpecUsage ==
    /\ InitSearch
    /\ [][NextUsage]_vars
    /\ \A p \in Procs : WF_vars(ResumeUsage(p))
    /\ WF_vars(Detached)

\* boosted searchMemories(.., 2) alone on the three memories, the store
\* reporting distances 0 (an exact match, or no _distance at all), 2 and 3
BoostInputs ==
    [SearchInputs EXCEPT !.ops = {"searchMemories"}, !.limits = {2}, !.boosts = {TRUE},
                         !.scores = {0, 2, 3}]

NextBoost ==
    \/ \E p \in Procs :
          \/ Invoke(p, BoostInputs)
          \/ searchMemories_embedded(p)
          \/ searchMemories_resolved(p, BoostInputs.scores)
    \/ Detached

SpecBoost == InitSearch /\ [][NextBoost]_vars

\* boosted searchMemories on three memories used 1, 9 and 10 times: at distance
\* 2 the first is adjusted to 1.92, at distance 3 the second to
\* 1.9199999999999997 and the third to 1.7999999999999998
NearTieRows ==
    <<[StoredMemory(OllamaConfig) EXCEPT !.usage_count = 1, !.last_used = 0],
      [StoredMemory(OllamaConfig) EXCEPT !.id = 2, !.content = "b",
          !.embedding = [of |-> "b", model |-> OllamaConfig.model, f32 |-> TRUE],
          !.usage_count = 9, !.last_used = 0],
      [StoredMemory(OllamaConfig) EXCEPT !.id = 3, !.usage_count = 10, !.last_used = 0]>>

InitNearTie ==
    /\ tableNames = {"config", "memories"}
    /\ configRows = <<OllamaConfig>>
    /\ ftsIndex = TRUE
    /\ rows = NearTieRows
    /\ embeddingService = EmbeddingServiceOllama
    /\ embedInits = EmbedInitsDone
    /\ db = TRUE
    /\ table = TRUE
    /\ configTable = TRUE
    /\ inits = [i \in InitProcs |-> InitIdle]
    /\ initDone = InitOk
    /\ dbCalls = [initialize |-> 1, close |-> 0]
    /\ calls = [p \in Procs |-> CallIdle]
    /\ completed = CallIdle
    /\ invoked = 0
    /\ writeBacks = EmptyBag
    /\ nextId = Len(NearTieRows) + 1
    /\ now = 0
    /\ hist = [started |-> TRUE, deleted |-> {}, configs |-> {OllamaConfig},
               created |-> {<<NearTieRows[i].id, NearTieRows[i].timestamp>> :
                               i \in 1..Len(NearTieRows)}]

NearTieInputs == [SearchInputs EXCEPT !.ops = {"searchMemories"}, !.boosts = {TRUE}]

NextNearTie ==
    \/ \E p \in Procs :
          \/ Invoke(p, NearTieInputs)
          \/ searchMemories_embedded(p)
          \/ searchMemories_resolved(p, NearTieInputs.scores)
    \/ Detached

SpecNearTie == InitNearTie /\ [][NextNearTie]_vars

\* searchMemories on four memories, so that a search with limit 1 is cut to the
\* three candidates of its over-fetch
OverfetchRows ==
    SearchRows \o <<[StoredMemory(OllamaConfig) EXCEPT !.id = 4, !.usage_count = 6,
                                                       !.last_used = 0]>>

InitOverfetch ==
    /\ tableNames = {"config", "memories"}
    /\ configRows = <<OllamaConfig>>
    /\ ftsIndex = TRUE
    /\ rows = OverfetchRows
    /\ embeddingService = EmbeddingServiceOllama
    /\ embedInits = EmbedInitsDone
    /\ db = TRUE
    /\ table = TRUE
    /\ configTable = TRUE
    /\ inits = [i \in InitProcs |-> InitIdle]
    /\ initDone = InitOk
    /\ dbCalls = [initialize |-> 1, close |-> 0]
    /\ calls = [p \in Procs |-> CallIdle]
    /\ completed = CallIdle
    /\ invoked = 0
    /\ writeBacks = EmptyBag
    /\ nextId = Len(OverfetchRows) + 1
    /\ now = 0
    /\ hist = [started |-> TRUE, deleted |-> {}, configs |-> {OllamaConfig},
               created |-> {<<OverfetchRows[i].id, OverfetchRows[i].timestamp>> :
                               i \in 1..Len(OverfetchRows)}]

OverfetchInputs == [SearchInputs EXCEPT !.ops = {"searchMemories"}]

NextOverfetch ==
    \/ \E p \in Procs :
          \/ Invoke(p, OverfetchInputs)
          \/ searchMemories_embedded(p)
          \/ searchMemories_resolved(p, OverfetchInputs.scores)
    \/ Detached

SpecOverfetch == InitOverfetch /\ [][NextOverfetch]_vars

\* addMemories with items that carry a project only, tags only, both or
\* neither, and defaults that carry both, the project only or nothing
BatchInputs ==
    [ServiceInputs EXCEPT
        !.ops = {"addMemories"},
        !.batches = {Batch(MaxBatch), MixedBatch(MaxBatch)},
        !.metadatas = {NoMetadata, [project |-> Some("p"), tags |-> Some(<<"t">>)],
                       [project |-> Some("p"), tags |-> None]}]

NextBatch ==
    \E p \in Procs : Invoke(p, BatchInputs) \/ addMemories_embedded(p) \/ addMemories_added(p)

SpecBatch == InitService /\ [][NextBatch]_vars

\* listMemories and deleteMemory on four memories of two projects, stored one
\* after the other
ListRows ==
    <<[StoredMemory(OllamaConfig) EXCEPT !.project = Some("p"), !.tags = Some(<<"t">>)],
      [StoredMemory(OllamaConfig) EXCEPT !.id = 2, !.timestamp = 1,
          !.project = Some("q"), !.tags = Some(<<"t">>)],
      [StoredMemory(OllamaConfig) EXCEPT !.id = 3, !.timestamp = 2, !.project = Some("p")],
      [StoredMemory(OllamaConfig) EXCEPT !.id = 4, !.timestamp = 3,
          !.project = Some("p"), !.tags = Some(<<"u", "t">>)]>>

InitList ==
    /\ tableNames = {"config", "memories"}
    /\ configRows = <<OllamaConfig>>
    /\ ftsIndex = TRUE
    /\ rows = ListRows
    /\ embeddingService = EmbeddingServiceOllama
    /\ embedInits = EmbedInitsDone
    /\ db = TRUE
    /\ table = TRUE
    /\ configTable = TRUE
    /\ inits = [i \in InitProcs |-> InitIdle]
    /\ initDone = InitOk
    /\ dbCalls = [initialize |-> 1, close |-> 0]
    /\ calls = [p \in Procs |-> CallIdle]
    /\ completed = CallIdle
    /\ invoked = 0
    /\ writeBacks = EmptyBag
    /\ nextId = Len(ListRows) + 1
    /\ now = 3
    /\ hist = [started |-> TRUE, deleted |-> {}, configs |-> {OllamaConfig},
               created |-> {<<ListRows[i].id, ListRows[i].timestamp>> :
                               i \in 1..Len(ListRows)}]

ListInputs ==
    [ServiceInputs EXCEPT
        !.ops = {"listMemories", "deleteMemory"},
        !.listOptions = [project : {None, Some("p")},
                         tags : {None, Some(<<"t">>), Some(<<"u", "v">>)},
                         limit : {1, 2}, offset : {0, 2}]]

ResumeList(p) ==
    \/ listMemories_resolved(p)
    \/ deleteMemory_deleted(p)

NextList == \E p \in Procs : Invoke(p, ListInputs) \/ ResumeList(p)

SpecList == InitList /\ [][NextList]_vars


\* a process that starts on a store an earlier process left complete, and that
\* calls EmbeddingService.initialize() again, after a failed pipeline load or
\* while the first call is still running, around DatabaseService.initialize()
InitRestart ==
    /\ tableNames = {"config", "memories"}
    /\ configRows \in {<<OllamaConfig>>, <<TransformersConfig>>}
    /\ ftsIndex = TRUE
    /\ rows = <<StoredMemory(configRows[1])>>
    /\ nextId = 2
    /\ hist = HistStored
    /\ embeddingService = EmbeddingServiceNew
    /\ embedInits = NoEmbedInits
    /\ db = FALSE
    /\ table = FALSE
    /\ configTable = FALSE
    /\ inits = [i \in InitProcs |-> InitIdle]
    /\ initDone = InitIdle
    /\ dbCalls = [initialize |-> 0, close |-> 0]
    /\ calls = [p \in Procs |-> CallIdle]
    /\ completed = CallIdle
    /\ invoked = 0
    /\ writeBacks = EmptyBag
    /\ now = 0

\* the steps DatabaseService.initialize() takes on such a store, and close()
Reopen ==
    \/ \E i \in InitProcs :
          \/ initialize(i)
          \/ initialize_connect(i)
          \/ initialize_tableNames(i)
          \/ initialize_openConfig(i)
          \/ initialize_queryConfig(i)
          \/ initialize_openTable(i)
          \/ initialize_listIndices(i)
    \/ close

NextRestart ==
    \/ EmbeddingLifecycle(MaxEmbedRetries)
    \/ Reopen
    \/ \E p \in Procs :
          \/ Invoke(p, [FewInputs EXCEPT !.ops = {"addMemory"}])
          \/ addMemory_embedded(p)
          \/ addMemory_added(p)

SpecRestart == InitRestart /\ [][NextRestart]_vars
\* ------------------------------------------------------------------ claims
\* C1: in every reachable state the memories table holds at most one record
\* per id, whatever the interleaving of the handlers.
UniqueIds ==
    \A i, j \in 1..Len(rows) : rows[i].id = rows[j].id => i = j

\* C2: an add, addBatch or update whose embedding generation failed has failed
\* without inserting or removing a row of the table.
EmbeddingFailureWritesNothing ==
    (completed.op \in {"addMemory", "addMemories", "updateMemory"} /\ completed.embedFailed)
        => /\ completed.pc = "failed"
           /\ completed.adds = 0
           /\ completed.removed = 0

\* C3: once a delete(id) has completed, no state holds a record with that id.
DeletedStaysDeleted ==
    \A id \in hist.deleted : id \notin RowIds(rows)

\* C4: for a memory in the table before and after a step, usage_count does not
\* decrease and last_used does not move earlier, and only a usage write-back
\* landing changes either of them.
UsageOnlyGrows ==
    [][\A i \in 1..Len(rows) : \A j \in 1..Len(rows') :
          rows[i].id = rows'[j].id =>
            /\ rows'[j].usage_count >= rows[i].usage_count
            /\ rows'[j].last_used >= rows[i].last_used
            /\ (\/ rows'[j].usage_count # rows[i].usage_count
                \/ rows'[j].last_used # rows[i].last_used)
                  => \E w \in BagToSet(writeBacks) : rows' = TableUpdate(rows, w)]_vars

\* C5: an initialize() that found a persisted config row and compared it with
\* the active config it read from getConfig() ended with the mismatch error
\* exactly when the persisted provider or model is not the active one, and
\* succeeded otherwise; the dimension plays no part.
ConfigGuard ==
    (/\ initDone.result # "none"
     /\ "config" \in initDone.seen
     /\ IsSome(initDone.config))
        => LET persisted == configRows[1]
               currentConfig == Get(initDone.config)
               differs == \/ persisted.provider # currentConfig.provider
                          \/ persisted.model # currentConfig.model
           IN  /\ initDone.result = ConfigMismatch <=> differs
               /\ ~differs => initDone.result = "ok"

\* C6: a handler invoked while initialize() is in progress throws 'Database not
\* initialized' at once, without entering the table.
FailsWhileInitializing ==
    [][(invoked' = invoked + 1 /\ InFlight # {})
          => /\ calls' = calls
             /\ completed'.pc = "failed"
             /\ completed'.error = DbNotInit]_vars

\* C7: a handler invoked when initialize() was never called, or after close()
\* with no initialize() called since, throws 'Database not initialized' at
\* once: no embedding call, no table call, store and write-backs untouched.
FailsWhenNotInitialized ==
    [][(invoked' = invoked + 1 /\ ~hist.started)
          => /\ calls' = calls
             /\ completed'.pc = "failed"
             /\ completed'.error = DbNotInit
             /\ completed'.embedCalls = 0
             /\ completed'.tableCalls = 0
             /\ completed'.adds = 0 /\ completed'.removed = 0 /\ completed'.updates = 0
             /\ disk' = disk
             /\ writeBacks' = writeBacks]_vars

\* C8: a batch is in the table whole or not at all: before its one table.add
\* none of its records is there, the call has inserted none or all of them, and
\* with one failed embedding it fails having inserted none.
BatchAllOrNothing ==
    /\ \A p \in Procs : calls[p].op = "addMemories" =>
          /\ calls[p].adds = 0
          /\ \A i \in 1..Len(calls[p].memory) : calls[p].memory[i].id \notin RowIds(rows)
    /\ completed.op = "addMemories" =>
          /\ completed.adds \in {0, Len(completed.memories)}
          /\ completed.pc = "done" => completed.adds = Len(completed.memories)
          /\ completed.embedFailed => completed.pc = "failed" /\ completed.adds = 0
\* C8 case: a batch with a failed embedding threw and the table is as it was
BatchFailedEmpty ==
    /\ completed.op = "addMemories"
    /\ completed.embedFailed
    /\ completed.pc = "failed"
    /\ rows = <<StoredMemory(OllamaConfig)>>

\* C9: an update or related call whose id matched no record fails with the
\* not-found error, having deleted nothing, inserted nothing, requested no
\* embedding and issued no usage write-back.
NotFoundTouchesNothing ==
    (completed.op \in {"updateMemory", "getRelatedMemories"} /\ completed.lookupEmpty)
        => /\ completed.pc = "failed"
           /\ completed.error = NotFound
           /\ completed.removed = 0
           /\ completed.adds = 0
           /\ completed.updates = 0
           /\ completed.embedCalls = 0
\* C9 case: an update of an id that was deleted before failed with not-found
UpdateOfDeletedNotFound ==
    /\ completed.op = "updateMemory"
    /\ completed.lookupEmpty
    /\ completed.memoryId \in hist.deleted
    /\ completed.error = NotFound

\* C10: every record of the table carries the timestamp its id was created with.
TimestampPreserved ==
    \A i \in 1..Len(rows) : <<rows[i].id, rows[i].timestamp>> \in hist.created
\* C10 case: a record used by a search and then given new content and new
\* metadata, later than its creation, still has the timestamp of its creation
UpdatedKeepsTimestamp ==
    /\ completed.op = "updateMemory"
    /\ completed.pc = "done"
    /\ now > 0
    /\ \E i \in 1..Len(rows) :
          /\ rows[i].id = completed.memoryId
          /\ rows[i].content = "b"
          /\ rows[i].tags = Some(<<"t">>)
          /\ rows[i].usage_count > 0
          /\ rows[i].timestamp = 0

\* C11: the record a successful update inserts holds the embedding of the new
\* content as the provider asked generates it, when content is given, and the
\* stored embedding of the existing record when it is not; the update called
\* the provider once in the first case and not at all in the second.
UpdateEmbedding ==
    [][\A p \in Procs :
          (At(p, "updateMemory", "adding") /\ calls'[p].pc = "idle" /\ completed'.pc = "done") =>
            LET c == calls[p]
                r == rows'[Len(rows')]
            IN  /\ Len(rows') = Len(rows) + 1
                /\ r.id = c.memoryId
                /\ IsSome(c.content) =>
                      /\ r.content = Get(c.content)
                      /\ r.embedding = [of |-> Get(c.content), model |-> c.request.model,
                                        f32 |-> TRUE]
                      /\ completed'.embedCalls = 1
                /\ ~IsSome(c.content) =>
                      /\ r.embedding = Get(c.existing).embedding
                      /\ completed'.embedCalls = 0]_vars
\* C11 case: an update with new content "b" stored the embedding of "b"
UpdatedEmbeddingFresh ==
    /\ completed.op = "updateMemory"
    /\ completed.pc = "done"
    /\ completed.content = Some("b")
    /\ completed.embedCalls = 1
    /\ \E i \in 1..Len(rows) :
          /\ rows[i].id = completed.memoryId
          /\ rows[i].embedding.of = "b"
          /\ rows[i].embedding.f32

\* C12: the record a successful update inserts has the id, usage_count and
\* last_used of the existing record it read, the project of the metadata if it
\* gives one and the existing project otherwise, and likewise the tags.
UpdateFrame ==
    [][\A p \in Procs :
          (At(p, "updateMemory", "adding") /\ calls'[p].pc = "idle" /\ completed'.pc = "done") =>
            LET c == calls[p]
                e == Get(c.existing)
                r == rows'[Len(rows')]
            IN  /\ Len(rows') = Len(rows) + 1
                /\ r.id = c.memoryId
                /\ r.id = e.id
                /\ r.usage_count = e.usage_count
                /\ r.last_used = e.last_used
                /\ r.project = IF IsSome(c.metadata.project) THEN c.metadata.project
                               ELSE e.project
                /\ r.tags = IF IsSome(c.metadata.tags) THEN c.metadata.tags
                            ELSE e.tags]_vars
\* C12 case: an update that gave tags only replaced the tags of a record that
\* had a project and tags, and kept its project
UpdatedTagsOnly ==
    /\ completed.op = "updateMemory"
    /\ completed.pc = "done"
    /\ completed.metadata = [project |-> None, tags |-> Some(<<"t">>)]
    /\ \E i \in 1..Len(rows) :
          /\ rows[i].id = completed.memoryId
          /\ rows[i].project = Some("q")
          /\ rows[i].tags = Some(<<"t">>)

\* C13: when addMemory returns an id, a lookup of that id finds one record, with
\* the content, project and tags of the call, usage_count 0 and no last_used,
\* and no other record of the table has that id.
AddThenLookup ==
    [][\A p \in Procs :
          (At(p, "addMemory", "adding") /\ calls'[p].pc = "idle" /\ completed'.pc = "done") =>
            LET c == calls[p]
                id == completed'.ret[1]
                found == TableQueryById(rows', id)
            IN  /\ Len(completed'.ret) = 1
                /\ Len(found) = 1
                /\ found[1].content = Get(c.content)
                /\ found[1].project = c.metadata.project
                /\ found[1].tags = c.metadata.tags
                /\ found[1].usage_count = 0
                /\ found[1].last_used = NoTime
                /\ Cardinality(RowsOf(rows', id)) = 1
                /\ id \notin RowIds(rows)]_vars
\* C13 case: addMemory("b", {project: "p", tags: ["t"]}) returned and its record
\* is in the table as given
AddedWithMetadata ==
    /\ completed.op = "addMemory"
    /\ completed.pc = "done"
    /\ completed.content = Some("b")
    /\ \E i \in 1..Len(rows) :
          /\ rows[i].id = completed.ret[1]
          /\ rows[i].content = "b"
          /\ rows[i].project = Some("p")
          /\ rows[i].tags = Some(<<"t">>)
          /\ rows[i].usage_count = 0
          /\ rows[i].last_used = NoTime

\* C14: when addMemories returns for N items, the table has gained N records,
\* the N returned ids are pairwise distinct and new, the i-th id is the id of
\* the record with the i-th item's content, and all N records have one timestamp.
BatchIdsInOrder ==
    [][\A p \in Procs :
          (At(p, "addMemories", "adding") /\ calls'[p].pc = "idle") =>
            LET c == calls[p]
                n == Len(c.memories)
                ret == completed'.ret
            IN  /\ completed'.pc = "done"
                /\ Len(ret) = n
                /\ Len(rows') = Len(rows) + n
                /\ \A i, j \in 1..n : ret[i] = ret[j] => i = j
                /\ \A i \in 1..n :
                      LET found == TableQueryById(rows', ret[i])
                      IN  /\ ret[i] \notin RowIds(rows)
                          /\ Cardinality(RowsOf(rows', ret[i])) = 1
                          /\ Len(found) = 1
                          /\ found[1].content = c.memories[i].content
                          /\ found[1].timestamp =
                                TableQueryById(rows', ret[1])[1].timestamp]_vars
\* C14 case: a batch of MaxBatch items returned MaxBatch ids and its first two
\* records hold "a" and "b" in that order
BatchReturnedInOrder ==
    /\ completed.op = "addMemories"
    /\ completed.pc = "done"
    /\ Len(completed.ret) = MaxBatch
    /\ \E i, j \in 1..Len(rows) :
          /\ rows[i].id = completed.ret[1] /\ rows[i].content = "a"
          /\ rows[j].id = completed.ret[2] /\ rows[j].content = "b"
          /\ rows[i].timestamp = rows[j].timestamp

\* C15: when deleteMemory returns, it has succeeded whether or not a record had
\* the id, a lookup of the id finds nothing, and the records with other ids are
\* as they were.
DeleteIdempotent ==
    [][\A p \in Procs :
          (At(p, "deleteMemory", "deleting") /\ calls'[p].pc = "idle") =>
            LET id == calls[p].memoryId
            IN  /\ completed'.pc = "done"
                /\ completed'.error = ""
                /\ Len(TableQueryById(rows', id)) = 0
                /\ SelectSeq(rows', LAMBDA r : r.id # id)
                      = SelectSeq(rows, LAMBDA r : r.id # id)
                /\ Len(rows') = Len(rows) - Cardinality(RowsOf(rows, id))]_vars
\* C15 case: a deleteMemory(1) called when record 1 was gone already returned
\* without error, having removed nothing
DeletedTwice ==
    /\ completed.op = "deleteMemory"
    /\ completed.pc = "done"
    /\ completed.memoryId = 1
    /\ completed.removed = 0
    /\ 1 \in hist.deleted
    /\ invoked > 1
    /\ 1 \notin RowIds(rows)

\* C16: a getRelatedMemories call that succeeds returns at most `limit` records
\* and never the record of the source id, with and without the usage boost and
\* for every order in which the store lists the candidates.
RelatedExcludesSource ==
    (completed.op = "getRelatedMemories" /\ completed.pc = "done") =>
        /\ Len(completed.ret) <= completed.limit
        /\ \A i \in 1..Len(completed.ret) : completed.ret[i].id # completed.memoryId
\* C16 case: a boosted getRelatedMemories(2, 1) whose source was the store's
\* nearest candidate and, used ten times, the best after the boost as well
RelatedSourceWasNearest ==
    /\ completed.op = "getRelatedMemories"
    /\ completed.pc = "done"
    /\ completed.boostFrequent
    /\ completed.memoryId = 2
    /\ completed.limit = 1
    /\ Len(completed.candidates) = 3
    /\ completed.candidates[1].id = 2
    /\ completed.candidates[1].score = Number(2)
    /\ Len(completed.ret) = 1

\* C17: every record a searchMemories or getRelatedMemories call returns has a
\* usage update (usage_count + 1, last_used) issued for it by that call, with
\* boostFrequent false and true.
ReturnedHaveUsageUpdate ==
    (completed.op \in {"searchMemories", "getRelatedMemories"} /\ completed.pc = "done") =>
        \A i \in 1..Len(completed.ret) :
            \E k \in 1..Len(completed.issued) : completed.issued[k].id = completed.ret[i].id

\* C18: once searchMemories has returned, every memory among its results (none
\* is ever deleted here) eventually is stored with the usage_count the search
\* read plus one, and with a last_used.
UsageEventuallyCounted ==
    (completed.op = "searchMemories" /\ completed.pc = "done")
    ~> (/\ completed.op = "searchMemories"
        /\ completed.pc = "done"
        /\ \A i \in 1..Len(completed.ret) :
              \E j \in 1..Len(rows) :
                  /\ rows[j].id = completed.ret[i].id
                  /\ rows[j].usage_count = completed.ret[i].usage_count + 1
                  /\ rows[j].last_used # NoTime)

\* C19: the usage updates of a search are fire-and-forget. When a search (or the
\* search of a related call) returns, the updates it issued are all still
\* outstanding; a step in which an update settles, landing or failing, leaves
\* every call and the returned result as they were; and updates are issued only
\* by a returning search, so a failed one is never issued again.
UsageUpdatesDetached ==
    [][/\ \A p \in Procs :
            (/\ At(p, "searchMemories", "searching") \/ At(p, "getRelatedMemories", "searching")
             /\ calls'[p].pc = "idle"
             /\ completed'.pc = "done")
            => \A k \in 1..Len(completed'.issued) :
                  CopiesIn(completed'.issued[k], writeBacks')
                      >= Cardinality({j \in 1..Len(completed'.issued) :
                                         completed'.issued[j] = completed'.issued[k]})
       /\ (writeBacks' # writeBacks /\ writeBacks' \sqsubseteq writeBacks)
            => UNCHANGED handlers
       /\ ~(writeBacks' \sqsubseteq writeBacks)
            => \E p \in Procs :
                  /\ At(p, "searchMemories", "searching") \/ At(p, "getRelatedMemories", "searching")
                  /\ calls'[p].pc = "idle"
                  /\ completed'.pc = "done"
                  /\ \A w \in BagToSet(writeBacks') :
                        CopiesIn(w, writeBacks') = CopiesIn(w, writeBacks)
                            + Cardinality({j \in 1..Len(completed'.issued) :
                                              completed'.issued[j] = w})]_vars
\* C19 case: searchMemories returned two records, and both of its usage updates
\* have failed since: the result stands and the table is as it was
UsageUpdatesAllFailed ==
    /\ completed.op = "searchMemories"
    /\ completed.pc = "done"
    /\ Len(completed.ret) = 2
    /\ Len(completed.issued) = 2
    /\ writeBacks = EmptyBag
    /\ rows = SearchRows

\* C20: a searchMemories call with boostFrequent returns Min(limit, candidates)
\* records; each is a candidate with its score replaced by
\* score * (1 - min(1, usage_count / 10) * 0.4) in the doubles of the code,
\* which is score * 0.6 from ten uses on; the returned scores ascend; and no
\* candidate left out has a lower adjusted score than a returned one.
BoostRanksByAdjustedScore ==
    (completed.op = "searchMemories" /\ completed.pc = "done" /\ completed.boostFrequent) =>
        LET cands == completed.candidates
            ret == completed.ret
            adjusted(c) ==
                IF c.usage_count >= 10 THEN Times(c.score, Quotient(6, 10))
                ELSE Times(c.score,
                           Minus(Number(1), Times(Quotient(c.usage_count, 10), Quotient(4, 10))))
        IN  /\ Len(ret) = Min(completed.limit, Len(cands))
            /\ \A i \in 1..Len(ret) :
                  \E j \in 1..Len(cands) :
                      ret[i] = [cands[j] EXCEPT !.score = adjusted(cands[j])]
            /\ \A i, k \in 1..Len(ret) : i < k => ~Less(ret[k].score, ret[i].score)
            /\ \A i, k \in 1..Len(ret) : i # k => ret[i].id # ret[k].id
            /\ \A j \in 1..Len(cands) :
                  (\A i \in 1..Len(ret) : ret[i].id # cands[j].id)
                  => \A i \in 1..Len(ret) : ~Less(adjusted(cands[j]), ret[i].score)
\* C20 case: a boosted searchMemories(.., 2) that listed the record used once
\* first, at distance 2, and the records used nine and ten times at distance 3:
\* it returned the record used ten times at 1.7999999999999998 and then the one
\* used nine times at 1.9199999999999997, and left out the first at 1.92
BoostReordered ==
    /\ completed.op = "searchMemories"
    /\ completed.pc = "done"
    /\ completed.boostFrequent
    /\ completed.limit = 2
    /\ Len(completed.candidates) = 3
    /\ completed.candidates[1].id = 1
    /\ completed.candidates[1].usage_count = 1
    /\ completed.candidates[1].score = Number(2)
    /\ completed.candidates[2].id = 2
    /\ completed.candidates[2].usage_count = 9
    /\ completed.candidates[2].score = Number(3)
    /\ completed.candidates[3].score = Number(3)
    /\ Len(completed.ret) = 2
    /\ completed.ret[1].id = 3
    /\ completed.ret[1].score = Times(Number(3), Quotient(6, 10))
    /\ completed.ret[2].id = 2
    /\ Less(completed.ret[1].score, completed.ret[2].score)
    /\ Less(completed.ret[2].score, Quotient(192, 100))

\* C21 as stated: in a boosted searchMemories, of two candidates with the same
\* raw score, one used ten times and one never, the used one has the lower or
\* equal adjusted score and is not ranked after the other: where the unused one
\* is returned, the used one is returned before it.
BoostFavoursUsed ==
    (completed.op = "searchMemories" /\ completed.pc = "done" /\ completed.boostFrequent) =>
        LET cands == completed.candidates
            ret == completed.ret
        IN  \A a, b \in 1..Len(cands) :
                (/\ cands[a].score = cands[b].score
                 /\ ~Less(cands[a].score, Number(0))
                 /\ cands[a].usage_count = 10
                 /\ cands[b].usage_count = 0)
                => /\ ~Less(BoostedScore(cands[b].score, 0), BoostedScore(cands[a].score, 10))
                   /\ \A k \in 1..Len(ret) :
                         ret[k].id = cands[b].id
                         => \E i \in 1..(k - 1) : ret[i].id = cands[a].id
\* C21 amended: the adjusted score of the used candidate is lower or equal, and
\* when the common raw score is positive the used one is not ranked after the
\* other: where the unused one is returned, the used one is returned before it.
BoostFavoursUsedAboveZero ==
    (completed.op = "searchMemories" /\ completed.pc = "done" /\ completed.boostFrequent) =>
        LET cands == completed.candidates
            ret == completed.ret
        IN  \A a, b \in 1..Len(cands) :
                (/\ cands[a].score = cands[b].score
                 /\ ~Less(cands[a].score, Number(0))
                 /\ cands[a].usage_count = 10
                 /\ cands[b].usage_count = 0)
                => /\ ~Less(BoostedScore(cands[b].score, 0), BoostedScore(cands[a].score, 10))
                   /\ Less(Number(0), cands[a].score)
                        => \A k \in 1..Len(ret) :
                              ret[k].id = cands[b].id
                              => \E i \in 1..(k - 1) : ret[i].id = cands[a].id
\* C21 case: the store listed the unused record before the record used ten
\* times, both at distance 2; the boosted search returned the used one first
BoostMovedUsedAhead ==
    /\ completed.op = "searchMemories"
    /\ completed.pc = "done"
    /\ completed.boostFrequent
    /\ completed.limit = 2
    /\ Len(completed.candidates) = 3
    /\ completed.candidates[1].id = 1
    /\ completed.candidates[1].score = Number(2)
    /\ completed.candidates[2].id = 2
    /\ completed.candidates[2].score = Number(2)
    /\ completed.candidates[3].score = Number(3)
    /\ Len(completed.ret) = 2
    /\ completed.ret[1].id = 2
    /\ completed.ret[2].id = 1

\* C22: when listMemories returns, its result is the matching records at
\* positions offset .. offset + limit - 1 of the table, matching meaning that the
\* project is the requested one (when one is requested) and that the record has
\* one of the requested tags (when tags are requested); so it has at most limit
\* records and every one passes both filters.
ListPage ==
    [][\A p \in Procs :
          (At(p, "listMemories", "querying") /\ calls'[p].pc = "idle") =>
            LET options == [project |-> calls[p].metadata.project,
                            tags |-> calls[p].metadata.tags,
                            limit |-> calls[p].limit, offset |-> calls[p].offset]
                passes(r) ==
                    /\ IsSome(options.project) => r.project = options.project
                    /\ IsSome(options.tags) =>
                          /\ IsSome(r.tags)
                          /\ \E t \in {Get(options.tags)[i] : i \in 1..Len(Get(options.tags))} :
                                t \in {Get(r.tags)[j] : j \in 1..Len(Get(r.tags))}
                matching == SelectSeq(rows, passes)
                page == SubSeq(matching, options.offset + 1,
                               Min(options.offset + options.limit, Len(matching)))
                ret == completed'.ret
            IN  /\ completed'.pc = "done"
                /\ Len(ret) <= options.limit
                /\ \A i \in 1..Len(ret) : passes(ret[i])
                /\ [i \in 1..Len(ret) |-> ret[i].id] = [i \in 1..Len(page) |-> page[i].id]]_vars

\* C23: the records listMemories returns are sorted by timestamp, newest first.
ListNewestFirst ==
    (completed.op = "listMemories" /\ completed.pc = "done") =>
        \A i \in 1..(Len(completed.ret) - 1) :
            completed.ret[i].timestamp >= completed.ret[i + 1].timestamp

\* C24: the config rows change in one kind of step only: an initialize that saw
\* no config table writes, into the empty store, one row equal to the provider,
\* model and dimension it read from getConfig() before the write. Once a row
\* exists, no step of initialize, close or a memory operation changes, adds or
\* removes one.
ConfigWrittenOnce ==
    [][/\ configRows' # configRows =>
            \E i \in InitProcs :
                /\ inits[i].pc = "createConfig"
                /\ inits'[i] # inits[i]
                /\ "config" \notin inits[i].seen
                /\ configRows = <<>>
                /\ configRows' = <<Get(inits[i].config)>>
       /\ \A i \in InitProcs :
            (inits[i].pc # "createConfig" /\ inits'[i].pc = "createConfig")
                => inits'[i].config = Some(getConfig)]_vars
\* C24 case: on an empty directory an initialize wrote the active config, a
\* later initialize found the config table and completed, and addMemory stored
\* the first memory; the config row is the one first written
ConfigKeptAcrossRestart ==
    /\ hist.created = {<<1, 0>>} \/ hist.created = {<<1, 1>>}
    /\ completed.op = "addMemory"
    /\ completed.pc = "done"
    /\ nextId = 2
    /\ HasConfig
    /\ configRows = <<getConfig>>
    /\ dbCalls.initialize = 2
    /\ initDone.result = "ok"
    /\ initDone.seen = {"config", "memories"}
    /\ initDone.config = Some(getConfig)
    /\ ~initDone.overlapped

\* C25: when addMemories returns, the record of the i-th item has the item's own
\* project if it has one and the default project if not, and, separately, the
\* item's own tags if it has some and the default tags if not: own and default
\* tags are never joined.
BatchDefaultsPerField ==
    [][\A p \in Procs :
          (At(p, "addMemories", "adding") /\ calls'[p].pc = "idle" /\ completed'.pc = "done") =>
            LET items == calls[p].memories
                defaults == calls[p].metadata
                ret == completed'.ret
            IN  /\ Len(ret) = Len(items)
                /\ \A i \in 1..Len(items) :
                      LET found == TableQueryById(rows', ret[i])
                      IN  /\ Len(found) = 1
                          /\ found[1].project = IF items[i].project # None
                                                THEN items[i].project ELSE defaults.project
                          /\ found[1].tags = IF items[i].tags # None
                                             THEN items[i].tags ELSE defaults.tags]_vars
\* C25 case: with defaults project "p" and tags ["t"], the item with project "q"
\* alone was stored with "q" and ["t"], the item with tags ["u"] alone with "p"
\* and ["u"]
BatchMixedDefaults ==
    /\ completed.op = "addMemories"
    /\ completed.pc = "done"
    /\ completed.memories = MixedBatch(MaxBatch)
    /\ completed.metadata = [project |-> Some("p"), tags |-> Some(<<"t">>)]
    /\ \E i, j \in 1..Len(rows) :
          /\ rows[i].id = completed.ret[1]
          /\ rows[i].project = Some("q") /\ rows[i].tags = Some(<<"t">>)
          /\ rows[j].id = completed.ret[2]
          /\ rows[j].project = Some("p") /\ rows[j].tags = Some(<<"u">>)

\* C26: a returned searchMemories(query, limit, boost) has issued one usage
\* update, usage_count + 1, for each of the first Min(limit, n) of the n
\* candidates as the store listed them, and none for a later candidate, with and
\* without the boost; getRelatedMemories(id, limit) has issued them for the first
\* limit + 1 candidates of its search, the source memory among them or not.
UsageUpdatesForFirstCandidates ==
    (completed.op \in {"searchMemories", "getRelatedMemories"} /\ completed.pc = "done") =>
        LET cands == completed.candidates
            first == IF completed.op = "getRelatedMemories"
                     THEN completed.limit + 1 ELSE completed.limit
            counted == 1..Min(first, Len(cands))
        IN  /\ Len(cands) <= first * 3
            /\ Len(completed.issued) = Cardinality(counted)
            /\ \A i \in counted :
                  /\ completed.issued[i].id = cands[i].id
                  /\ completed.issued[i].usage_count = cands[i].usage_count + 1
\* C26 case: a boosted getRelatedMemories(1, 1) whose search listed the source
\* first: usage updates went to the source and to the second candidate, not to
\* the third, and the record returned is the third
RelatedCountedSource ==
    /\ completed.op = "getRelatedMemories"
    /\ completed.pc = "done"
    /\ completed.boostFrequent
    /\ completed.memoryId = 1
    /\ completed.limit = 1
    /\ Len(completed.candidates) = 3
    /\ completed.candidates[1].id = 1
    /\ completed.candidates[2].id = 3
    /\ {completed.issued[k].id : k \in 1..Len(completed.issued)} = {1, 3}
    /\ Len(completed.ret) = 1
    /\ completed.ret[1].id = 2

\* C27: a returned searchMemories(query, limit, boost) holds at most limit
\* records, each one of the at most limit * 3 candidates the store listed, and no
\* id twice (the store lists none twice); without the boost the result is the
\* first limit candidates in the store's order, scores untouched.
SearchResultFromCandidates ==
    (completed.op = "searchMemories" /\ completed.pc = "done") =>
        LET cands == completed.candidates
            ret == completed.ret
        IN  /\ Len(ret) <= completed.limit
            /\ Len(cands) <= completed.limit * 3
            /\ \A i \in 1..Len(ret) :
                  \E j \in 1..Len(cands) :
                      [ret[i] EXCEPT !.score = 0] = [cands[j] EXCEPT !.score = 0]
            /\ \A i, k \in 1..Len(ret) : ret[i].id = ret[k].id => i = k
            /\ ~completed.boostFrequent
                  => ret = SubSeq(cands, 1, Min(completed.limit, Len(cands)))
\* C27 case: on four memories and without the boost, searchMemories(.., 2)
\* returned the two records the store listed first, at distances 3 and 2 in that
\* order, and left out a third candidate at distance 2
SearchKeptStoreOrder ==
    /\ completed.op = "searchMemories"
    /\ completed.pc = "done"
    /\ ~completed.boostFrequent
    /\ completed.limit = 2
    /\ Len(completed.candidates) = 4
    /\ completed.candidates[3].score = Number(2)
    /\ Len(completed.ret) = 2
    /\ completed.ret[1].score = Number(3)
    /\ completed.ret[2].score = Number(2)

\* C28: updateMemory deletes in one step and inserts in a later one. Its delete
\* step leaves no record with the id and does not return; while the call is past
\* its delete and the id is absent, a lookup of the id by another call finds
\* nothing, a list, search or related call that returns holds no record with the
\* id, and a usage update for the id that lands leaves the table as it was.
UpdateGap ==
    [][LET inGap(p) == At(p, "updateMemory", "embedding") \/ At(p, "updateMemory", "adding")
           gapIds == {calls[p].memoryId : p \in {q \in Procs : inGap(q)}} \ RowIds(rows)
       IN  /\ \A p \in Procs :
                 (At(p, "updateMemory", "deleting") /\ calls'[p] # calls[p]) =>
                     /\ calls[p].memoryId \notin RowIds(rows')
                     /\ calls'[p].op = "updateMemory"
                     /\ calls'[p].pc \in {"embedding", "adding"}
           /\ \A q \in Procs :
                 ((At(q, "updateMemory", "querying") \/ At(q, "getRelatedMemories", "querying"))
                  /\ calls'[q] # calls[q] /\ calls[q].memoryId \in gapIds) =>
                     /\ calls'[q].pc = "idle"
                     /\ completed'.pc = "failed"
                     /\ completed'.error = NotFound
           /\ \A q \in Procs :
                 ((\/ At(q, "listMemories", "querying")
                   \/ At(q, "searchMemories", "searching")
                   \/ At(q, "getRelatedMemories", "searching"))
                  /\ calls'[q] # calls[q] /\ completed'.pc = "done") =>
                     \A i \in 1..Len(completed'.ret) : completed'.ret[i].id \notin gapIds
           /\ \A w \in BagToSet(writeBacks) :
                 (CopiesIn(w, writeBacks') < CopiesIn(w, writeBacks) /\ w.id \in gapIds)
                     => rows' = rows]_vars
\* C28 case: updateMemory(1) has deleted record 1 and not inserted it yet, and a
\* listMemories that would have returned record 1 returned nothing
ListedInsideUpdateGap ==
    /\ \E p \in Procs : At(p, "updateMemory", "adding") /\ calls[p].memoryId = 1
    /\ rows = <<>>
    /\ completed.op = "listMemories"
    /\ completed.pc = "done"
    /\ completed.ret = <<>>

\* C29: a step in which a usage update settles leaves the table with the same
\* records in the same places: none is added (a deleted memory does not come
\* back) or removed, every record keeps id, content, embedding, timestamp,
\* project and tags, and only records with the update's id may change
\* usage_count and last_used, to the update's values.
UsageUpdateFrame ==
    [][\A w \in BagToSet(writeBacks) :
          CopiesIn(w, writeBacks') < CopiesIn(w, writeBacks) =>
            /\ Len(rows') = Len(rows)
            /\ \A i \in 1..Len(rows) :
                  /\ rows'[i].id = rows[i].id
                  /\ rows'[i].content = rows[i].content
                  /\ rows'[i].embedding = rows[i].embedding
                  /\ rows'[i].timestamp = rows[i].timestamp
                  /\ rows'[i].project = rows[i].project
                  /\ rows'[i].tags = rows[i].tags
                  /\ \/ /\ rows'[i].usage_count = rows[i].usage_count
                        /\ rows'[i].last_used = rows[i].last_used
                     \/ /\ rows[i].id = w.id
                        /\ rows'[i].usage_count = w.usage_count
                        /\ rows'[i].last_used = w.last_used]_vars
\* C29 case: the usage update of a search has landed on the stored memory, which
\* is as it was stored but for usage_count 1 and its last_used
UsageUpdateLanded ==
    /\ completed.op = "searchMemories"
    /\ completed.pc = "done"
    /\ Len(completed.issued) = 1
    /\ writeBacks = EmptyBag
    /\ rows = <<[StoredMemory(OllamaConfig) EXCEPT
                    !.usage_count = 1, !.last_used = completed.issued[1].last_used]>>

\* C30 as stated: once the first initialize() of the process has failed with
\* ConfigMismatch, the memories table is never opened: getTable() stays null.
MismatchNeverOpens ==
    initDone.firstResult = ConfigMismatch => ~table
\* C30 amended: an initialize() that fails with ConfigMismatch leaves getTable()
\* and the store as they were; getTable() turns non-null only in an
\* initialize() call that found no persisted config row or read a config whose
\* provider and model are the persisted ones; and a memory operation invoked
\* while getTable() is null fails with 'Database not initialized' at once and
\* writes nothing.
TableOpenedByMatchingInitialize ==
    [][/\ \A i \in InitProcs :
            (inits[i].pc # "idle" /\ inits'[i].pc = "idle"
                /\ initDone'.result = ConfigMismatch)
                => table' = table /\ disk' = disk
       /\ (~table /\ table') =>
            \E i \in InitProcs :
                /\ inits[i].pc \in {"openTable", "createTable"}
                /\ inits'[i] # inits[i]
                /\ Len(configRows) > 0 =>
                      /\ IsSome(inits[i].config)
                      /\ configRows[1].provider = Get(inits[i].config).provider
                      /\ configRows[1].model = Get(inits[i].config).model
       /\ (invoked' = invoked + 1 /\ ~table) =>
            /\ calls' = calls
            /\ completed'.pc = "failed"
            /\ completed'.error = DbNotInit
            /\ disk' = disk]_vars
\* C30 case: the first initialize() has failed with ConfigMismatch, the
\* connection is open, the table is not, and addMemory was refused
RefusedAfterMismatch ==
    /\ initDone.firstResult = ConfigMismatch
    /\ initDone.result = ConfigMismatch
    /\ db
    /\ configTable
    /\ ~table
    /\ rows = <<StoredMemory(configRows[1])>>
    /\ completed.op = "addMemory"
    /\ completed.pc = "failed"
    /\ completed.error = DbNotInit
====
